---- MODULE Spec2Model ----
(***************************************************************************)
(* Query scoring, semantic cache and resilient routing engine of the       *)
(* customer support agent.                                                 *)
(*                                                                         *)
(* Part 1: SystemErrorHandler (app/services/error_handler.py), the error   *)
(*         ledger and circuit breaker, and the with_error_handling wrapper.*)
(* Part 2: SemanticCache (app/services/cache_service.py).                  *)
(* Part 3: QueryProcessor (app/routes/query.py): process_query and the     *)
(*         fallback chain over the Kong gateway and the direct Groq API.   *)
(* Part 4: ComplexityAnalyzer, SentimentAnalyzer and EscalationManager     *)
(*         (app/services): the scoring and escalation functions.           *)
(* Part 5: record_error under threads, process_query under concurrent      *)
(*         requests, and SessionManager with its backup thread.            *)
(*                                                                         *)
(* Time is a clock in whole seconds (datetime.utcnow()).  isoformat() /    *)
(* fromisoformat() of created_at round-trip a datetime exactly, so a       *)
(* timestamp is kept as the clock value it was taken at.                   *)
(***************************************************************************)
EXTENDS Integers, Sequences, FiniteSets, TLC

VARIABLES
    now,               \* datetime.utcnow(), seconds
    error_counts,      \* SystemErrorHandler.error_counts: key -> entry (count = 0: key absent)
    circuit_breakers,  \* SystemErrorHandler.circuit_breakers: key -> breaker (state "NONE": key absent)
    fallback_history,  \* len(SystemErrorHandler.fallback_history)
    last,              \* the last call made on the handler and what it returned
    run,               \* history: per key, the current run of record_error calls of one severity
    wcfg,              \* the decoration parameters of the function wrapped by with_error_handling
    wpc,               \* per caller: position in async_wrapper
    wattempt,          \* per caller: loop variable attempt
    wcalls,            \* history: per caller, invocations of the wrapped function in this call
    wprobe,            \* history: per caller, the breaker check of this invocation saw OPEN (cooldown over) or HALF_OPEN
    wresult,           \* per caller: how the last call ended
    wrecorded,         \* history: per caller, this call has recorded an error
    cache,             \* SemanticCache.cache: the entries in dict (insertion) order
    query_vectors,     \* SemanticCache.query_vectors: query text -> vector
    fitted,            \* SemanticCache.fitted
    vocabulary,        \* SemanticCache.vectorizer.vocabulary_ (the terms of the last fit)
    similarity_threshold,  \* SemanticCache.similarity_threshold, in hundredths
    max_cache_size,    \* SemanticCache.max_cache_size
    clast,             \* the last call made on the cache and what it returned
    qpc,               \* process_query: "idle", "post" (awaiting client.post), "sleep" (awaiting asyncio.sleep), "done"
    request,           \* process_query: the query, the recommended model and the failures met before the dispatch
    tried,             \* _process_llm_request_with_fallbacks: the links of fallback_chain entered so far,
                       \* each with the transport calls made for it and how it ended
    attempt,           \* _call_llm_via_kong / _call_groq_direct: loop variable attempt
    clean,             \* history: every failure so far of the link being tried (before its first call returns:
                       \* of the link that ended last) was a 429, a 5xx, a connect error or a timeout
    wait,              \* the wait_time of the asyncio.sleep in progress
    qresult,           \* how process_query ended, and the QueryResponse it returned
    nrequests,         \* process_query calls made so far
    scall,             \* the last call made on a scoring or escalation function and what it returned
    crm_store,         \* EscalationManager.crm_store: the tickets logged for the customer
    tpc,               \* per thread: position in record_error
    tsev,              \* per thread: the severity argument of its record_error call
    ttmp,              \* per thread: the count it has loaded for the += 1
    tcalls,            \* history: record_error calls that have returned
    rpc,               \* per request coroutine: where it is in process_query, its query and its model
    sessions,          \* SessionManager.sessions: number of sessions
    messages,          \* messages appended to the sessions
    lock,              \* SessionManager._lock: "free", or the thread holding it
    bpc,               \* the backup thread: position in _auto_backup_worker
    lpc,               \* the event loop thread: the session call in progress
    stop_backup,       \* SessionManager._stop_backup
    backup_file        \* what the last completed flush wrote

breakerVars == <<error_counts, circuit_breakers, fallback_history, last, run>>
wrapperVars == <<wcfg, wpc, wattempt, wcalls, wprobe, wresult, wrecorded>>
cacheVars == <<cache, query_vectors, fitted, vocabulary, similarity_threshold, max_cache_size, clast>>
dispatchVars == <<qpc, request, tried, attempt, clean, wait, qresult, nrequests>>
scoringVars == <<scall, crm_store>>
threadVars == <<tpc, tsev, ttmp, tcalls>>
sessionVars == <<sessions, messages, lock, bpc, lpc, stop_backup, backup_file>>
taskVars == <<rpc>>
restVars == <<scoringVars, threadVars, taskVars, sessionVars>>
vars == <<now, breakerVars, wrapperVars, cacheVars, dispatchVars, restVars>>

(***************************************************************************)
(* Bounds of the model.                                                    *)
(***************************************************************************)
MaxErrors == 11        \* record_error is not called on a key whose count has reached this
MaxTime == 302         \* the clock stops here
MaxWrapErrors == 4     \* the wrapper does not record an error on a key whose count has reached this
NumCallers == 2        \* concurrent callers of the wrapped function
MaxRetries == 1        \* largest max_retries a wrapped function is decorated with

MaxCacheSize == 2      \* max_cache_size the cache is constructed with
MaxCacheTime == 3601   \* the clock stops here in the runs of the cache

MaxRequests == 2       \* process_query calls in one run
MaxLedgerErrors == 1   \* errors recorded on a key while requests are processed
MaxHead == 2           \* words in the head of a scored text
MaxPad == 31           \* filler words after the head of a scored text
NumThreads == 2        \* threads calling record_error
NumCoroutines == 2     \* requests handled at the same time
MaxThreadCalls == 3    \* record_error calls started by the threads in one run
MaxSessions == 2       \* sessions created in one run
MaxMessages == 2       \* messages appended in one run

CacheTicks == {3600, 3601}   \* clock steps: the TTL is hit exactly, or passed
BreakerTicks == {150, 151}   \* clock steps: the cooldown can be hit exactly, and passed

(***************************************************************************)
(* Program constants.                                                      *)
(***************************************************************************)
CooldownSeconds == 300       \* timedelta(minutes=5)

Severities == {"low", "medium", "high", "critical"}

error_thresholds == [s \in Severities |->
    CASE s = "low" -> 10
      [] s = "medium" -> 5
      [] s = "high" -> 3
      [] s = "critical" -> 1]

Components == {"llm_api"}
Operations == {"call"}

\* key = f"{component}:{error_type}"
ErrKey(component, error_type) == component \o ":" \o error_type

Keys == {ErrKey(c, o) : c \in Components, o \in Operations}

Callers == 1..NumCallers
WrapSeverities == {"critical", "high"}   \* severities the wrapped function is decorated with

NoErrors == [count |-> 0, severity |-> "none"]
NoBreaker == [state |-> "NONE", opened_at |-> 0, failure_count |-> 0, severity |-> "none"]
NoRun == [sev |-> "none", n |-> 0, fresh |-> FALSE]
NoCall == [op |-> "none", key |-> "", ret |-> FALSE]

(***************************************************************************)
(* SemanticCache                                                           *)
(*                                                                         *)
(* A query is its text.  Tokens gives what the TfidfVectorizer analyzer    *)
(* (lowercase, words of two or more characters, English stop words         *)
(* removed) makes of each text of the model.  The vectorizer is fitted on  *)
(* one document, so every idf weight is 1 and a tf-idf vector is the       *)
(* vector of term counts over the fitted vocabulary, L2-normalised; the    *)
(* cosine does not depend on the normalisation, so vectors are kept as     *)
(* term counts.  A cosine c is kept exactly, as the fraction num/den = c^2 *)
(* (c is never negative).  md5 is taken to be collision-free: a cache key  *)
(* is the string that is hashed.                                           *)
(***************************************************************************)
TtlSeconds == 3600             \* ttl_seconds
DefaultThreshold == 85         \* similarity_threshold = 0.85

Models == {"llama-3.3-70b-versatile", "openai/gpt-oss-120b"}
Queries == {"", "   ", "reset password", "password reset for my password", "reset", "the"}
Responses == {"", "r1", "r2"}
TokenCounts == {0}
BlankQueries == {"", "   "}
AnyModel == "llama-3.3-70b-versatile"

\* The calls made on the cache: every call with a query that is not blank and
\* a response that is not empty, and the calls that are rejected, with a blank
\* query or an empty response.
GetCalls ==
    ((Queries \ BlankQueries) \X Models) \cup (BlankQueries \X {AnyModel})
SetCalls ==
    ((Queries \ BlankQueries) \X Models \X (Responses \ {""}) \X TokenCounts)
    \cup (BlankQueries \X {AnyModel} \X {"r1"} \X TokenCounts)
    \cup ({"reset password"} \X {AnyModel} \X {""} \X TokenCounts)

RequestQueries == {"reset password", "configure api", "   "}

Tokens == [q \in Queries \cup RequestQueries |->
    CASE q = "reset password" -> <<"reset", "password">>
      [] q = "configure api" -> <<"configure", "api">>
      [] q = "password reset for my password" -> <<"password", "reset", "password">>
      [] q = "reset" -> <<"reset">>
      [] OTHER -> <<>>]

\* (variant: only the empty string is rejected, without strip())
IsBlankEmptyOnly(q) == q = ""

\* not query or not query.strip()
IsBlank(q) == q \in BlankQueries

\* (variant: the model is left out of the key)
GetCacheKeyQueryOnly(query, model) == query

\* _get_cache_key: md5 of f"{query}:{model}"
GetCacheKey(query, model) == query \o ":" \o model

TermsOf(q) == {Tokens[q][i] : i \in 1..Len(Tokens[q])}
TermCount(q, term) == Cardinality({i \in 1..Len(Tokens[q]) : Tokens[q][i] = term})

\* vectorizer.transform([query]).toarray()[0]
Transform(q, vocab) == [term \in vocab |-> TermCount(q, term)]

NoVector == [none |-> TRUE, v |-> <<>>]
SomeVector(v) == [none |-> FALSE, v |-> v]

PutVector(qv, q, v) == [x \in (DOMAIN qv) \cup {q} |-> IF x = q THEN v ELSE qv[x]]
DropVector(qv, q) == [x \in (DOMAIN qv) \ {q} |-> qv[x]]

\* _vectorize_query: the vector (or None) and the vectorizer state after the
\* call.  The first successful call fits the vectorizer; a fit on documents
\* without any term raises and leaves it unfitted.
VectorizeQuery(query, fit, vocab, qv) ==
    IF IsBlank(query)
    THEN [vector |-> NoVector, fitted |-> fit, vocabulary |-> vocab, qv |-> qv]
    ELSE IF fit
    THEN [vector |-> SomeVector(Transform(query, vocab)), fitted |-> fit, vocabulary |-> vocab, qv |-> qv]
    ELSE IF DOMAIN qv # {}
    THEN LET terms == UNION {TermsOf(q) : q \in (DOMAIN qv) \cup {query}}
         IN IF terms = {}
            THEN [vector |-> NoVector, fitted |-> FALSE, vocabulary |-> vocab, qv |-> qv]
            ELSE [vector |-> SomeVector(Transform(query, terms)), fitted |-> TRUE, vocabulary |-> terms,
                  qv |-> [q \in DOMAIN qv |-> Transform(q, terms)]]
    ELSE IF TermsOf(query) = {}
         THEN [vector |-> NoVector, fitted |-> FALSE, vocabulary |-> vocab, qv |-> qv]
         ELSE [vector |-> SomeVector(Transform(query, TermsOf(query))), fitted |-> TRUE,
               vocabulary |-> TermsOf(query), qv |-> qv]

RECURSIVE DotOver(_, _, _)
DotOver(a, b, terms) ==
    IF terms = {} THEN 0
    ELSE LET t == CHOOSE x \in terms : TRUE
         IN a[t] * b[t] + DotOver(a, b, terms \ {t})

Dot(a, b) == DotOver(a, b, (DOMAIN a) \cap (DOMAIN b))

\* cosine_similarity([a], [b])[0][0], squared; 0 when one of the vectors is zero
Cosine(a, b) ==
    LET n == Dot(a, a) * Dot(b, b)
    IN IF n = 0 THEN [num |-> 0, den |-> 1] ELSE [num |-> Dot(a, b) * Dot(a, b), den |-> n]

ExactSimilarity == [num |-> 1, den |-> 1]     \* 'similarity': 1.0
ZeroSimilarity == [num |-> 0, den |-> 1]      \* best_similarity = 0.0

SimGreater(s1, s2) == s1.num * s2.den > s2.num * s1.den
SimAtLeast(s, th) == s.num * 10000 >= th * th * s.den

\* (variant: an entry never expires)
IsExpiredNever(entry, t) == FALSE

\* _is_expired
IsExpired(entry, t) == t - entry.created_at > TtlSeconds

HasKey(c, key) == \E i \in 1..Len(c) : c[i].key = key
IndexOf(c, key) == CHOOSE i \in 1..Len(c) : c[i].key = key
EntryOf(c, key) == c[IndexOf(c, key)]
KeysOf(c) == {c[i].key : i \in 1..Len(c)}

\* _remove_entry: the entry goes, and so does the vector stored under its query text.
RemoveEntry(c, qv, key) ==
    IF HasKey(c, key)
    THEN [cache |-> SelectSeq(c, LAMBDA e : e.key # key),
          qv |-> DropVector(qv, EntryOf(c, key).query)]
    ELSE [cache |-> c, qv |-> qv]

RECURSIVE RemoveAll(_, _, _)
RemoveAll(c, qv, keys) ==
    IF keys = <<>> THEN [cache |-> c, qv |-> qv]
    ELSE LET r == RemoveEntry(c, qv, Head(keys))
         IN RemoveAll(r.cache, r.qv, Tail(keys))

\* _cleanup_expired
CleanupExpired(c, qv, t) ==
    LET expired == SelectSeq(c, LAMBDA e : IsExpired(e, t))
    IN RemoveAll(c, qv, [i \in 1..Len(expired) |-> expired[i].key])

\* (variant: max() instead of min(): the newest entry is evicted)
EvictNewest(c, qv) ==
    IF c = <<>> THEN [cache |-> c, qv |-> qv]
    ELSE LET i == CHOOSE j \in 1..Len(c) :
                    /\ \A k \in 1..Len(c) : c[j].created_at >= c[k].created_at
                    /\ \A k \in 1..(j - 1) : c[k].created_at < c[j].created_at
         IN RemoveEntry(c, qv, c[i].key)

\* (variant: nothing is evicted)
EvictNone(c, qv) == [cache |-> c, qv |-> qv]

\* _evict_oldest: min() over the keys by created_at, the first of the smallest in dict order
EvictOldest(c, qv) ==
    IF c = <<>> THEN [cache |-> c, qv |-> qv]
    ELSE LET i == CHOOSE j \in 1..Len(c) :
                    /\ \A k \in 1..Len(c) : c[j].created_at <= c[k].created_at
                    /\ \A k \in 1..(j - 1) : c[k].created_at > c[j].created_at
         IN RemoveEntry(c, qv, c[i].key)

\* The loop of _find_similar_query over cache.items(), from entry i on.
RECURSIVE ScanSimilar(_, _, _, _, _, _, _)
ScanSimilar(c, qv, qvec, model, th, i, best) ==
    IF i > Len(c) THEN best.key
    ELSE LET e == c[i]
             sim == Cosine(qvec, qv[e.query])
         IN IF /\ e.model = model
               /\ e.query \in DOMAIN qv
               /\ SimGreater(sim, best.sim)
               /\ SimAtLeast(sim, th)
            THEN ScanSimilar(c, qv, qvec, model, th, i + 1, [sim |-> sim, key |-> e.key])
            ELSE ScanSimilar(c, qv, qvec, model, th, i + 1, best)

\* _find_similar_query: the key found ("" for None) and the vectorizer state after the call.
FindSimilarQuery(c, qv, fit, vocab, query, model, th) ==
    IF DOMAIN qv = {} THEN [key |-> "", fitted |-> fit, vocabulary |-> vocab, qv |-> qv]
    ELSE LET vq == VectorizeQuery(query, fit, vocab, qv)
         IN [key |-> IF vq.vector.none THEN ""
                     ELSE ScanSimilar(c, vq.qv, vq.vector.v, model, th, 1,
                                      [sim |-> ZeroSimilarity, key |-> ""]),
             fitted |-> vq.fitted, vocabulary |-> vq.vocabulary, qv |-> vq.qv]

Miss == [hit |-> FALSE, response |-> "", cached |-> FALSE, similarity |-> ZeroSimilarity, src |-> ""]
Hit(entry, sim) == [hit |-> TRUE, response |-> entry.response, cached |-> TRUE, similarity |-> sim, src |-> entry.key]

\* (variant: no exact-key lookup, the similarity search alone)
GetAfterCleanupNoExact(c, qv, fit, vocab, query, model, th, t) ==
    LET f == FindSimilarQuery(c, qv, fit, vocab, query, model, th)
    IN IF f.key # "" /\ ~IsExpired(EntryOf(c, f.key), t)
       THEN LET v2 == VectorizeQuery(query, f.fitted, f.vocabulary, f.qv)
                e == EntryOf(c, f.key)
            IN [ret |-> IF ~v2.vector.none /\ e.query \in DOMAIN v2.qv
                        THEN Hit(e, Cosine(v2.vector.v, v2.qv[e.query]))
                        ELSE Miss,
                fitted |-> v2.fitted, vocabulary |-> v2.vocabulary, qv |-> v2.qv]
       ELSE [ret |-> Miss, fitted |-> f.fitted, vocabulary |-> f.vocabulary, qv |-> f.qv]

\* get, after _cleanup_expired: the exact-key lookup, then the similarity
\* search; the result and the vectorizer state after the call.
GetAfterCleanup(c, qv, fit, vocab, query, model, th, t) ==
    LET cache_key == GetCacheKey(query, model)
    IN IF HasKey(c, cache_key) /\ ~IsExpired(EntryOf(c, cache_key), t)
       THEN [ret |-> Hit(EntryOf(c, cache_key), ExactSimilarity),
             fitted |-> fit, vocabulary |-> vocab, qv |-> qv]
       ELSE LET f == FindSimilarQuery(c, qv, fit, vocab, query, model, th)
            IN IF f.key # "" /\ ~IsExpired(EntryOf(c, f.key), t)
               THEN LET v2 == VectorizeQuery(query, f.fitted, f.vocabulary, f.qv)
                        e == EntryOf(c, f.key)
                    IN [ret |-> IF ~v2.vector.none /\ e.query \in DOMAIN v2.qv
                                THEN Hit(e, Cosine(v2.vector.v, v2.qv[e.query]))
                                ELSE Miss,
                        fitted |-> v2.fitted, vocabulary |-> v2.vocabulary, qv |-> v2.qv]
               ELSE [ret |-> Miss, fitted |-> f.fitted, vocabulary |-> f.vocabulary, qv |-> f.qv]

\* The record of the last call on the cache.  A set is recorded with its
\* arguments and the key it evicted; a get with its model, its result and
\* history about the call: stale (the entry stored under the key asked for had
\* expired), twin (an unexpired entry holds the same query text under another
\* model) and prev (the response of the set of the same query and model that
\* came right before it, "none" without one).
NoCacheCall == [op |-> "none", query |-> "", model |-> "", response |-> "", ret |-> Miss,
                stale |-> FALSE, twin |-> FALSE, evicted |-> "", prev |-> "none"]

\* get(query, model): the cache after the call, the record of the call and the result.
AfterGet(query, model) ==
    IF IsBlank(query)
    THEN [cache |-> cache, query_vectors |-> query_vectors, fitted |-> fitted, vocabulary |-> vocabulary,
          clast |-> [NoCacheCall EXCEPT !.op = "get", !.model = model], ret |-> Miss]
    ELSE LET cl == CleanupExpired(cache, query_vectors, now)
             g == GetAfterCleanup(cl.cache, cl.qv, fitted, vocabulary, query, model,
                                  similarity_threshold, now)
         IN [cache |-> cl.cache, query_vectors |-> g.qv, fitted |-> g.fitted, vocabulary |-> g.vocabulary,
             clast |-> [NoCacheCall EXCEPT !.op = "get", !.model = model, !.ret = g.ret,
                           !.stale = GetCacheKey(query, model) \in KeysOf(cache) \ KeysOf(cl.cache),
                           !.twin = \E i \in 1..Len(cl.cache) :
                                        cl.cache[i].query = query /\ cl.cache[i].model # model,
                           !.prev = IF clast.op = "set" /\ clast.query = query /\ clast.model = model
                                       /\ clast.response # ""
                                    THEN clast.response ELSE "none"],
             ret |-> g.ret]

\* The call leaves the cache as the record a says.
CacheBecomes(a) ==
    /\ cache' = a.cache
    /\ query_vectors' = a.query_vectors
    /\ fitted' = a.fitted
    /\ vocabulary' = a.vocabulary
    /\ clast' = a.clast
    /\ UNCHANGED <<similarity_threshold, max_cache_size>>

\* get(query, model), called on its own
Get(query, model) ==
    /\ CacheBecomes(AfterGet(query, model))
    /\ UNCHANGED <<now, breakerVars, wrapperVars, dispatchVars, restVars>>

\* cache[cache_key] = entry: an existing key keeps its place in the dict
PutEntry(c, entry) ==
    IF HasKey(c, entry.key)
    THEN [i \in 1..Len(c) |-> IF c[i].key = entry.key THEN entry ELSE c[i]]
    ELSE Append(c, entry)

\* set(query, model, response, tokens_used): the cache after the call and the record of the call.
AfterSet(query, model, response, tokens_used) ==
    IF IsBlank(query) \/ response = ""
    THEN [cache |-> cache, query_vectors |-> query_vectors, fitted |-> fitted, vocabulary |-> vocabulary,
          clast |-> [NoCacheCall EXCEPT !.op = "set"]]
    ELSE LET ev == IF Len(cache) >= max_cache_size
                   THEN EvictOldest(cache, query_vectors)
                   ELSE [cache |-> cache, qv |-> query_vectors]
             cache_key == GetCacheKey(query, model)
             vq == VectorizeQuery(query, fitted, vocabulary, ev.qv)
             entry == [key |-> cache_key, query |-> query, model |-> model, response |-> response,
                       tokens_used |-> tokens_used, created_at |-> now]
         IN [cache |-> PutEntry(ev.cache, entry),
             query_vectors |-> IF vq.vector.none THEN vq.qv ELSE PutVector(vq.qv, query, vq.vector.v),
             fitted |-> vq.fitted, vocabulary |-> vq.vocabulary,
             clast |-> [NoCacheCall EXCEPT !.op = "set", !.query = query, !.model = model,
                           !.response = response,
                           !.evicted = IF KeysOf(cache) \ KeysOf(ev.cache) = {} THEN ""
                                       ELSE CHOOSE k \in KeysOf(cache) \ KeysOf(ev.cache) : TRUE]]

\* set(query, model, response, tokens_used), called on its own
Set(query, model, response, tokens_used) ==
    /\ CacheBecomes(AfterSet(query, model, response, tokens_used))
    /\ UNCHANGED <<now, breakerVars, wrapperVars, dispatchVars, restVars>>

\* POST /api/query/cache/clear.  The vectorizer object keeps its old vocabulary,
\* but with fitted = False it is refitted before it is used again, so the
\* vocabulary is forgotten here.
ClearCache ==
    /\ cache' = <<>>
    /\ query_vectors' = <<>>
    /\ fitted' = FALSE
    /\ vocabulary' = {}
    /\ clast' = [NoCacheCall EXCEPT !.op = "clear"]
    /\ UNCHANGED <<now, breakerVars, wrapperVars, dispatchVars, restVars, similarity_threshold, max_cache_size>>

\* The clock advances between calls on the cache.
TickCache(d) ==
    /\ now + d <= MaxCacheTime
    /\ now' = now + d
    /\ clast' = [NoCacheCall EXCEPT !.op = "tick"]
    /\ UNCHANGED <<breakerVars, wrapperVars, dispatchVars, restVars, cache, query_vectors, fitted, vocabulary,
                   similarity_threshold, max_cache_size>>

InitCache ==
    /\ cache = <<>>
    /\ query_vectors = <<>>
    /\ fitted = FALSE
    /\ vocabulary = {}
    /\ similarity_threshold = DefaultThreshold
    /\ max_cache_size = MaxCacheSize
    /\ clast = NoCacheCall

(***************************************************************************)
(* QueryProcessor: scoring of the request, the transports and the chain    *)
(*                                                                         *)
(* A transport call ends with a status: "200" (a well-formed completion),  *)
(* "200hit" (the same with the header X-Cache-Status: HIT), "429", "500"   *)
(* (any status >= 500), "401", "404" (any other status), "connect"         *)
(* (httpx.ConnectError), "timeout" (httpx.TimeoutException) or "error"     *)
(* (any other exception, a malformed body included).  Scores are in        *)
(* thousandths.  performance_metrics only collects numbers and is left out.*)
(***************************************************************************)
KongMaxRetries == 2          \* _call_llm_via_kong(..., max_retries: int = 2)
DirectMaxRetries == 3        \* _call_groq_direct(..., max_retries: int = 3)

Statuses == {"200", "200hit", "429", "500", "401", "404", "connect", "timeout", "error"}
CallOutcomes == {"normal", "raises"}     \* a call on a service returns, or raises

\* what a 200 response carries: choices[0].message.content and usage.total_tokens
Completion == [content |-> "r1", tokens |-> 7]

Return(cached) == [kind |-> "return", wait |-> 0, cached |-> cached]
Sleep(wait_time) == [kind |-> "sleep", wait |-> wait_time, cached |-> FALSE]
Raise == [kind |-> "raise", wait |-> 0, cached |-> FALSE]

Min(a, b) == IF a <= b THEN a ELSE b

\* _call_llm_via_kong: what the loop body does with the outcome of client.post
\* in iteration attempt.  An HTTPException raised for a status is caught by
\* the function's own "except Exception" and handled like any other error.
CallLlmViaKong(status, att, max_retries) ==
    CASE status = "200" -> Return(FALSE)
      [] status = "200hit" -> Return(TRUE)
      [] OTHER -> IF att < max_retries THEN Sleep(2 ^ att) ELSE Raise

\* (variant: one retry fewer than max_retries)
CallGroqDirectShort(status, att, max_retries) ==
    CASE status \in {"200", "200hit"} -> Return(FALSE)
      [] status = "429" -> IF att + 1 < max_retries THEN Sleep(Min(60, (2 ^ att) * 5)) ELSE Raise
      [] status \in {"401", "404"} -> Raise
      [] OTHER -> IF att + 1 < max_retries THEN Sleep(2 ^ att) ELSE Raise

\* (variant: one retry more than max_retries)
CallGroqDirectLong(status, att, max_retries) ==
    CASE status \in {"200", "200hit"} -> Return(FALSE)
      [] status = "429" -> IF att < max_retries + 1 THEN Sleep(Min(60, (2 ^ att) * 5)) ELSE Raise
      [] status \in {"401", "404"} -> Raise
      [] OTHER -> IF att < max_retries + 1 THEN Sleep(2 ^ att) ELSE Raise

\* _call_groq_direct: what the loop body does with the outcome of client.post
\* in iteration attempt.  An HTTPException is re-raised.
CallGroqDirect(status, att, max_retries) ==
    CASE status \in {"200", "200hit"} -> Return(FALSE)
      [] status = "429" -> IF att < max_retries THEN Sleep(Min(60, (2 ^ att) * 5)) ELSE Raise
      [] status \in {"401", "404"} -> Raise
      [] OTHER -> IF att < max_retries THEN Sleep(2 ^ att) ELSE Raise

\* (variant: the direct API is tried before the gateway)
FallbackChainDirectFirst(preferred_model) ==
    << [method |-> "direct", model |-> preferred_model],
       [method |-> "kong", model |-> preferred_model],
       [method |-> "direct", model |-> "llama-3.3-70b-versatile"],
       [method |-> "direct", model |-> "llama-3.1-8b-instant"] >>

\* fallback_chain
FallbackChain(preferred_model) ==
    << [method |-> "kong", model |-> preferred_model],
       [method |-> "direct", model |-> preferred_model],
       [method |-> "direct", model |-> "llama-3.3-70b-versatile"],
       [method |-> "direct", model |-> "llama-3.1-8b-instant"] >>

\* The words query.split() gives for a request text.
SplitWords == [q \in RequestQueries |->
    CASE q = "reset password" -> <<"reset", "password">>
      [] q = "configure api" -> <<"configure", "api">>
      [] OTHER -> <<>>]

\* A scored text is a sequence of words joined by single blanks: a head of at
\* most MaxHead words of ScoringWords followed by n copies of a filler word,
\* n in PadCounts.  <<>> is the empty (or blank) text.
ScoringWords == {"reset", "password", "configure", "api", "error", "with", "first", "then"}
PadWords == {"please", "api"}
Heads == UNION {[1..n -> ScoringWords] : n \in 0..MaxHead}
PadCounts == {0, 1, 6, 7, 8, 17, 18, 19, 20} \cup {MaxPad - 1, MaxPad}
Pad(w, n) == [i \in 1..n |-> w]
ScoringTexts == {h \o Pad(w, n) : h \in Heads, w \in PadWords, n \in PadCounts}

\* technical_terms, as far as the words of the texts go
TechnicalTerms == {"api", "error"}

Has(ws, w) == \E i \in 1..Len(ws) : ws[i] = w
Adjacent(ws, a, b) == \E i \in 1..(Len(ws) - 1) : ws[i] = a /\ ws[i + 1] = b
Follows(ws, a, b) == \E i \in 1..Len(ws) : \E j \in (i + 1)..Len(ws) : ws[i] = a /\ ws[j] = b

\* re.search over each list of patterns.  Of their alternatives these can
\* match a text made of ScoringWords and PadWords: "reset password";
\* "(setup|configure).*(integration|api)"; "(trouble|problem|issue|error).*(with|in)";
\* "first.*then"; "(configure|configuration|setup|install)".
SimplePatterns(ws) == Adjacent(ws, "reset", "password")
IntegrationPatterns(ws) == Follows(ws, "configure", "api")
TroubleshootingPatterns(ws) == Follows(ws, "error", "with")
MultiStepPatterns(ws) == Follows(ws, "first", "then")
TechnicalPatterns(ws) == Has(ws, "configure")

\* _analyze_question_type: the first list with a matching pattern decides;
\* with none, more than 30 words make a multi-step question and a technical
\* term anywhere in the text a technical one.
AnalyzeQuestionType(ws) ==
    IF SimplePatterns(ws) THEN "simple_faq"
    ELSE IF IntegrationPatterns(ws) THEN "integration"
    ELSE IF TroubleshootingPatterns(ws) THEN "troubleshooting"
    ELSE IF MultiStepPatterns(ws) THEN "multi_step"
    ELSE IF TechnicalPatterns(ws) THEN "technical"
    ELSE IF Len(ws) > 30 THEN "multi_step"
    ELSE IF \E t \in TechnicalTerms : Has(ws, t) THEN "technical"
    ELSE "simple_faq"

\* complexity_weights, in thousandths
ComplexityWeights == [simple_faq |-> 0, technical |-> 150, multi_step |-> 250,
                      troubleshooting |-> 200, integration |-> 300]

\* _count_technical_terms
CountTechnicalTerms(ws) == Cardinality({i \in 1..Len(ws) : ws[i] \in TechnicalTerms})

\* _calculate_length_score: min(word_count / 40, 0.5)
CalculateLengthScore(ws) == Min(Len(ws) * 25, 500)

\* _calculate_technical_score: min(technical_count / 8 * 0.4, 0.4)
CalculateTechnicalScore(ws) == Min(CountTechnicalTerms(ws) * 50, 400)

\* _analyze_question_type_score
AnalyzeQuestionTypeScore(ws) == ComplexityWeights[AnalyzeQuestionType(ws)]

\* Where a scoring call raises: nowhere, inside calculate_complexity (one of
\* its three scores), or in analyze_query outside calculate_complexity.
Faults == {"none", "complexity", "analysis"}

\* (variant: the sum is not capped)
CalculateComplexityUncapped(ws, fault) ==
    IF ws = <<>> THEN 0
    ELSE IF fault = "complexity" THEN 500
    ELSE CalculateLengthScore(ws) + CalculateTechnicalScore(ws) + AnalyzeQuestionTypeScore(ws)

\* calculate_complexity: 0.0 for an empty text, 0.5 from its except branch
CalculateComplexity(ws, fault) ==
    IF ws = <<>> THEN 0
    ELSE IF fault = "complexity" THEN 500
    ELSE Min(CalculateLengthScore(ws) + CalculateTechnicalScore(ws) + AnalyzeQuestionTypeScore(ws), 1000)

\* (variant: the escalation flag is raised above 0.8 only)
GetModelRecommendationAbove(complexity_score) ==
    IF complexity_score < 300
    THEN [model |-> "llama-3.3-70b-versatile", escalation_flag |-> FALSE]
    ELSE [model |-> "openai/gpt-oss-120b", escalation_flag |-> complexity_score > 800]

\* get_model_recommendation
GetModelRecommendation(complexity_score) ==
    IF complexity_score < 300
    THEN [model |-> "llama-3.3-70b-versatile", escalation_flag |-> FALSE]
    ELSE IF complexity_score < 800
    THEN [model |-> "openai/gpt-oss-120b", escalation_flag |-> FALSE]
    ELSE [model |-> "openai/gpt-oss-120b", escalation_flag |-> TRUE]

\* analyze_query: an empty text is answered at once; an exception outside
\* calculate_complexity is answered by the except branch.
AnalyzeQuery(ws, fault) ==
    IF ws = <<>>
    THEN [complexity_score |-> 0, recommended_model |-> "llama-3.3-70b-versatile",
          escalation_flag |-> FALSE, analysis_successful |-> FALSE]
    ELSE IF fault = "analysis"
    THEN [complexity_score |-> 500, recommended_model |-> "llama-3.1-8b-instant",
          escalation_flag |-> TRUE, analysis_successful |-> FALSE]
    ELSE [complexity_score |-> CalculateComplexity(ws, fault),
          recommended_model |-> GetModelRecommendation(CalculateComplexity(ws, fault)).model,
          escalation_flag |-> GetModelRecommendation(CalculateComplexity(ws, fault)).escalation_flag,
          analysis_successful |-> TRUE]

\* _generate_fallback_response: which of the canned texts the query gets
\* ("api" is one of the technical words; none of the texts has a greeting).
GenerateFallbackResponse(q) ==
    IF q = "configure api" THEN "canned:technical" ELSE "canned:general"

\* (variant: the exhausted chain reports the model of its last link)
AllFailedLastModel(q) ==
    [response |-> GenerateFallbackResponse(q), tokens |-> 0, cached |-> FALSE, model |-> "llama-3.1-8b-instant"]

\* _process_llm_request_with_fallbacks, after the loop: every link has failed
AllFailed(q) ==
    [response |-> GenerateFallbackResponse(q), tokens |-> 0, cached |-> FALSE, model |-> "fallback"]

\* (variant: the lookup is not guarded, its exception reaches the outer handler)
OnLookupErrorRaise == "raise"

\* process_query: except Exception as cache_error around semantic_cache.get
OnLookupError == "miss"

NoRequest == [query |-> "", recommended_model |-> "", analysis_successful |-> TRUE, lookup_failed |-> FALSE]
NoResult == [kind |-> "none", response |-> "", model_used |-> "", tokens_used |-> 0, cached |-> FALSE,
             store_failed |-> FALSE]

InitDispatchIdle ==
    /\ qpc = "idle"
    /\ request = NoRequest
    /\ tried = <<>>
    /\ attempt = 0
    /\ clean = TRUE
    /\ wait = 0
    /\ qresult = NoResult
    /\ nrequests = 0

(***************************************************************************)
(* EscalationManager (app/services/escalation_manager.py) and              *)
(* SentimentAnalyzer (app/services/sentiment_analyzer.py).  Scores are in  *)
(* thousandths.                                                            *)
(***************************************************************************)
ComplexityThreshold == 800      \* complexity_threshold = 0.8
SentimentThreshold == -500      \* sentiment_threshold = -0.5

ComplexityScores == {0, 299, 300, 500, 599, 600, 799, 800, 801, 899, 900, 1000}
SentimentScores == {-1000, -600, -501, -500, -499, 0, 400}
ReasonLists == {<<>>, <<"complexity">>, <<"sentiment">>, <<"complexity", "sentiment">>}

\* (variant: the thresholds themselves fire)
ShouldEscalateInclusive(complexity_score, sentiment_score) ==
    LET reasons == (IF complexity_score >= ComplexityThreshold THEN <<"complexity">> ELSE <<>>)
                   \o (IF sentiment_score <= SentimentThreshold THEN <<"sentiment">> ELSE <<>>)
    IN [escalate |-> Len(reasons) > 0, reasons |-> reasons]

\* should_escalate
ShouldEscalate(complexity_score, sentiment_score) ==
    LET reasons == (IF complexity_score > ComplexityThreshold THEN <<"complexity">> ELSE <<>>)
                   \o (IF sentiment_score < SentimentThreshold THEN <<"sentiment">> ELSE <<>>)
    IN [escalate |-> Len(reasons) > 0, reasons |-> reasons]

\* (variant: the reasons are not looked at)
CalculatePriorityScoreOnly(escalation_score, reasons) ==
    IF escalation_score >= 900 THEN "critical"
    ELSE IF escalation_score >= 800 THEN "high"
    ELSE IF escalation_score >= 600 THEN "medium"
    ELSE "low"

\* _calculate_priority
CalculatePriority(escalation_score, reasons) ==
    IF escalation_score >= 900 \/ (\E i \in 1..Len(reasons) : reasons[i] = "sentiment") THEN "critical"
    ELSE IF escalation_score >= 800 THEN "high"
    ELSE IF escalation_score >= 600 THEN "medium"
    ELSE "low"

\* create_escalation_ticket: the EscalationTicket it builds (the summary, the
\* id and the copy of the history are left out)
NewTicket(escalation_reasons, escalation_score) ==
    [reason |-> IF escalation_reasons # <<>> THEN escalation_reasons[1] ELSE "manual",
     priority |-> CalculatePriority(escalation_score, escalation_reasons),
     status |-> "open",
     escalation_score |-> escalation_score]

\* _log_to_crm: what is appended to the customer's tickets
CrmRecord(ticket) == [reason |-> ticket.reason, priority |-> ticket.priority, status |-> ticket.status]

\* What one signal source gives: _get_textblob_sentiment and
\* _get_vader_sentiment answer 0.0 when the library call fails.
SourceScores == {-1000, -600, -400, 0, 400, 1000}
SourceOutcomes == {[failed |-> TRUE, score |-> 0]} \cup {[failed |-> FALSE, score |-> x] : x \in SourceScores}

\* analyze_sentiment.  The scores of the sources are even, so the mean is a
\* whole number of thousandths and round(., 3) leaves it as it is.  Both
\* sources catch their own exceptions: the except branch is not reached.
AnalyzeSentiment(textblob, vader) ==
    LET combined_score == IF textblob.score = 0 /\ vader.score = 0
                          THEN 0
                          ELSE (textblob.score + vader.score) \div 2
    IN [sentiment_score |-> combined_score,
        textblob_score |-> textblob.score,
        vader_score |-> vader.score,
        escalation_required |-> combined_score < SentimentThreshold,
        analysis_successful |-> ~(textblob.score = 0 /\ vader.score = 0)]

NoScoringCall == [op |-> "none", done |-> FALSE]

(***************************************************************************)
(* record_error called from several threads (sync_wrapper), and            *)
(* SessionManager (app/services/session_manager.py) with its backup thread.*)
(***************************************************************************)
Threads == 1..NumThreads

\* Requests being handled at the same time by the event loop.
Coroutines == 1..NumCoroutines
NoTask == [pc |-> "idle", query |-> "", model |-> ""]

NoBackup == [sessions |-> 0, messages |-> 0]

InitThreadsIdle ==
    /\ tpc = [t \in Threads |-> "idle"]
    /\ tsev = [t \in Threads |-> "none"]
    /\ ttmp = [t \in Threads |-> 0]
    /\ tcalls = 0

InitSessionsIdle ==
    /\ sessions = 0
    /\ messages = 0
    /\ lock = "free"
    /\ bpc = "sleep"
    /\ lpc = "idle"
    /\ stop_backup = FALSE
    /\ backup_file = NoBackup

InitRestIdle ==
    /\ scall = NoScoringCall
    /\ crm_store = <<>>
    /\ InitThreadsIdle
    /\ rpc = [r \in Coroutines |-> NoTask]
    /\ InitSessionsIdle

(***************************************************************************)
(* SystemErrorHandler                                                      *)
(***************************************************************************)

\* _trigger_circuit_breaker: creates the breaker only when the key has none.
TriggerCircuitBreaker(cb, ec, key, severity, t) ==
    IF cb[key].state = "NONE"
    THEN [cb EXCEPT ![key] = [state |-> "OPEN", opened_at |-> t,
                              failure_count |-> ec[key].count, severity |-> severity]]
    ELSE cb

\* (variant: the threshold must be exceeded, not reached)
AfterRecordErrorStrict(ec, cb, key, severity, t) ==
    LET entry == IF ec[key].count = 0 THEN [count |-> 0, severity |-> severity] ELSE ec[key]
        ec2 == [ec EXCEPT ![key] = [entry EXCEPT !.count = @ + 1]]
    IN [ec |-> ec2,
        cb |-> IF ec2[key].count > error_thresholds[severity]
               THEN TriggerCircuitBreaker(cb, ec2, key, severity, t)
               ELSE cb]

\* record_error: the ledger after the call, as [ec, cb].
AfterRecordError(ec, cb, key, severity, t) ==
    LET entry == IF ec[key].count = 0 THEN [count |-> 0, severity |-> severity] ELSE ec[key]
        ec2 == [ec EXCEPT ![key] = [entry EXCEPT !.count = @ + 1]]
    IN [ec |-> ec2,
        cb |-> IF ec2[key].count >= error_thresholds[severity]
               THEN TriggerCircuitBreaker(cb, ec2, key, severity, t)
               ELSE cb]

\* (variant: the call that ends the cooldown still answers "open")
AfterIsCircuitOpenLateProbe(cb, key, t) ==
    IF cb[key].state = "OPEN"
    THEN IF t - cb[key].opened_at > CooldownSeconds
         THEN [ret |-> TRUE, cb |-> [cb EXCEPT ![key].state = "HALF_OPEN"]]
         ELSE [ret |-> TRUE, cb |-> cb]
    ELSE [ret |-> FALSE, cb |-> cb]

\* is_circuit_open: the value returned and the breakers after the call.
AfterIsCircuitOpen(cb, key, t) ==
    IF cb[key].state = "NONE" THEN [ret |-> FALSE, cb |-> cb]
    ELSE IF cb[key].state = "OPEN"
         THEN IF t - cb[key].opened_at > CooldownSeconds
              THEN [ret |-> FALSE, cb |-> [cb EXCEPT ![key].state = "HALF_OPEN"]]
              ELSE [ret |-> TRUE, cb |-> cb]
         ELSE [ret |-> FALSE, cb |-> cb]

\* (variant: a success closes the breaker whatever its state)
AfterRecordSuccessAnyState(cb, key) ==
    IF cb[key].state \in {"OPEN", "HALF_OPEN"}
    THEN [cb EXCEPT ![key].state = "CLOSED"]
    ELSE cb

\* record_success: the breakers after the call.
AfterRecordSuccess(cb, key) ==
    IF cb[key].state = "HALF_OPEN"
    THEN [cb EXCEPT ![key].state = "CLOSED"]
    ELSE cb

\* History: the run of same-severity record_error calls on a key.  A run starts
\* at a call whose severity differs from the one before, or at the first call
\* after the breaker closed; fresh records whether the key had no breaker then.
RunAfterError(r, cb, key, severity) ==
    IF r[key].sev = severity
    THEN [r EXCEPT ![key].n = @ + 1]
    ELSE [r EXCEPT ![key] = [sev |-> severity, n |-> 1, fresh |-> cb[key].state = "NONE"]]

RunAfterSuccess(r, cb, cb2, key) ==
    IF cb[key].state # "CLOSED" /\ cb2[key].state = "CLOSED"
    THEN [r EXCEPT ![key] = NoRun]
    ELSE r

RecordError(key, severity) ==
    /\ error_counts[key].count < MaxErrors
    /\ LET a == AfterRecordError(error_counts, circuit_breakers, key, severity, now)
       IN /\ error_counts' = a.ec
          /\ circuit_breakers' = a.cb
    /\ run' = RunAfterError(run, circuit_breakers, key, severity)
    /\ last' = [op |-> "record_error", key |-> key, ret |-> FALSE]
    /\ UNCHANGED <<now, fallback_history, wrapperVars, cacheVars, dispatchVars, restVars>>

IsCircuitOpen(key) ==
    /\ LET a == AfterIsCircuitOpen(circuit_breakers, key, now)
       IN /\ circuit_breakers' = a.cb
          /\ last' = [op |-> "is_circuit_open", key |-> key, ret |-> a.ret]
    /\ UNCHANGED <<now, error_counts, fallback_history, run, wrapperVars, cacheVars, dispatchVars, restVars>>

RecordSuccess(key) ==
    /\ circuit_breakers' = AfterRecordSuccess(circuit_breakers, key)
    /\ run' = RunAfterSuccess(run, circuit_breakers, circuit_breakers', key)
    /\ last' = [op |-> "record_success", key |-> key, ret |-> FALSE]
    /\ UNCHANGED <<now, error_counts, fallback_history, wrapperVars, cacheVars, dispatchVars, restVars>>

\* The clock advances between calls.
Tick(d) ==
    /\ now + d <= MaxTime
    /\ now' = now + d
    /\ last' = [NoCall EXCEPT !.op = "tick"]
    /\ UNCHANGED <<error_counts, circuit_breakers, fallback_history, run, wrapperVars, cacheVars, dispatchVars, restVars>>

InitLedger ==
    /\ now = 0
    /\ error_counts = [k \in Keys |-> NoErrors]
    /\ circuit_breakers = [k \in Keys |-> NoBreaker]
    /\ fallback_history = 0
    /\ last = NoCall
    /\ run = [k \in Keys |-> NoRun]

InitWrapperIdle ==
    /\ wpc = [c \in Callers |-> "idle"]
    /\ wattempt = [c \in Callers |-> 0]
    /\ wcalls = [c \in Callers |-> 0]
    /\ wprobe = [c \in Callers |-> FALSE]
    /\ wresult = [c \in Callers |-> "none"]
    /\ wrecorded = [c \in Callers |-> FALSE]

DefaultWrap == [component |-> "llm_api", operation |-> "call", max_retries |-> MaxRetries,
                severity |-> "medium", fallback |-> FALSE]

InitBreaker ==
    /\ InitLedger
    /\ InitWrapperIdle
    /\ wcfg = DefaultWrap
    /\ InitCache
    /\ InitDispatchIdle
    /\ InitRestIdle

NextBreaker ==
    \/ \E k \in Keys, s \in Severities : RecordError(k, s)
    \/ \E k \in Keys : IsCircuitOpen(k)
    \/ \E k \in Keys : RecordSuccess(k)
    \/ \E d \in BreakerTicks : Tick(d)

SpecBreaker == InitBreaker /\ [][NextBreaker]_vars

(***************************************************************************)
(* with_error_handling: async_wrapper.  The code between two awaits runs   *)
(* without interleaving; the awaits are the wrapped function, the fallback *)
(* function and asyncio.sleep.                                             *)
(***************************************************************************)
WKey == ErrKey(wcfg.component, wcfg.operation)

\* (variant: the last retry is not made)
RetriesLeftShort(att, max_retries) == att < max_retries - 1

\* (variant: one retry more than max_retries)
RetriesLeftLong(att, max_retries) == att < max_retries + 1

\* if attempt < max_retries: the wrapper sleeps and tries again
RetriesLeft(att, max_retries) == att < max_retries

\* except Exception as e: retry after a sleep, or record the error and end
\* with the fallback or by raising.  cb is the breaker map at that point.
WException(c, cb, call) ==
    IF RetriesLeft(wattempt[c], wcfg.max_retries)
    THEN /\ wpc' = [wpc EXCEPT ![c] = "sleep"]
         /\ circuit_breakers' = cb
         /\ last' = call
         /\ UNCHANGED <<error_counts, fallback_history, run, wresult, wrecorded>>
    ELSE /\ error_counts[WKey].count < MaxWrapErrors
         /\ LET a == AfterRecordError(error_counts, cb, WKey, wcfg.severity, now)
            IN /\ error_counts' = a.ec
               /\ circuit_breakers' = a.cb
         /\ run' = RunAfterError(run, cb, WKey, wcfg.severity)
         /\ last' = [op |-> "record_error", key |-> WKey, ret |-> FALSE]
         /\ wrecorded' = [wrecorded EXCEPT ![c] = TRUE]
         /\ IF wcfg.fallback
            THEN /\ fallback_history' = fallback_history + 1
                 /\ wpc' = [wpc EXCEPT ![c] = "fallback_final"]
                 /\ UNCHANGED wresult
            ELSE /\ wpc' = [wpc EXCEPT ![c] = "done"]
                 /\ wresult' = [wresult EXCEPT ![c] = "raised"]
                 /\ UNCHANGED fallback_history

\* A caller calls the wrapped function: error_context is created, attempt = 0.
WCall(c) ==
    /\ wpc[c] \in {"idle", "done"}
    /\ wpc' = [wpc EXCEPT ![c] = "top"]
    /\ wattempt' = [wattempt EXCEPT ![c] = 0]
    /\ wcalls' = [wcalls EXCEPT ![c] = 0]
    /\ wprobe' = [wprobe EXCEPT ![c] = FALSE]
    /\ wresult' = [wresult EXCEPT ![c] = "none"]
    /\ wrecorded' = [wrecorded EXCEPT ![c] = FALSE]
    /\ UNCHANGED <<now, breakerVars, wcfg, cacheVars, dispatchVars, restVars>>

\* Top of a loop iteration: the breaker check; then the wrapped function is
\* invoked, or (breaker open) the fallback is, or the exception raised for the
\* open breaker is handled like any other.
WTop(c) ==
    /\ wpc[c] = "top"
    /\ LET a == AfterIsCircuitOpen(circuit_breakers, WKey, now)
           call == [op |-> "is_circuit_open", key |-> WKey, ret |-> a.ret]
       IN IF a.ret
          THEN /\ UNCHANGED <<wprobe, wcalls>>
               /\ IF wcfg.fallback
                  THEN /\ wpc' = [wpc EXCEPT ![c] = "fallback_open"]
                       /\ circuit_breakers' = a.cb
                       /\ last' = call
                       /\ UNCHANGED <<error_counts, fallback_history, run, wresult, wrecorded>>
                  ELSE WException(c, a.cb, call)
          ELSE /\ wpc' = [wpc EXCEPT ![c] = "func"]
               /\ wcalls' = [wcalls EXCEPT ![c] = @ + 1]
               /\ wprobe' = [wprobe EXCEPT ![c] = a.cb[WKey].state = "HALF_OPEN"]
               /\ circuit_breakers' = a.cb
               /\ last' = call
               /\ UNCHANGED <<error_counts, fallback_history, run, wresult, wrecorded>>
    /\ UNCHANGED <<now, wcfg, wattempt, cacheVars, dispatchVars, restVars>>

\* The wrapped function returns: record_success, and the result is returned.
WFuncReturns(c) ==
    /\ wpc[c] = "func"
    /\ circuit_breakers' = AfterRecordSuccess(circuit_breakers, WKey)
    /\ run' = RunAfterSuccess(run, circuit_breakers, circuit_breakers', WKey)
    /\ last' = [op |-> "record_success", key |-> WKey, ret |-> FALSE]
    /\ wpc' = [wpc EXCEPT ![c] = "done"]
    /\ wresult' = [wresult EXCEPT ![c] = "result"]
    /\ wprobe' = [wprobe EXCEPT ![c] = FALSE]
    /\ UNCHANGED <<now, error_counts, fallback_history, wcfg, wattempt, wcalls, wrecorded, cacheVars, dispatchVars, restVars>>

\* The wrapped function raises.
WFuncRaises(c) ==
    /\ wpc[c] = "func"
    /\ WException(c, circuit_breakers, last)
    /\ wprobe' = [wprobe EXCEPT ![c] = FALSE]
    /\ UNCHANGED <<now, wcfg, wattempt, wcalls, cacheVars, dispatchVars, restVars>>

\* asyncio.sleep(retry_delay * 2 ** attempt) returns; continue with attempt + 1.
WWake(c) ==
    /\ wpc[c] = "sleep"
    /\ wpc' = [wpc EXCEPT ![c] = "top"]
    /\ wattempt' = [wattempt EXCEPT ![c] = @ + 1]
    /\ UNCHANGED <<now, breakerVars, wcfg, wcalls, wprobe, wresult, wrecorded, cacheVars, dispatchVars, restVars>>

\* The fallback awaited inside the try block (breaker open) returns or raises.
WFallbackOpenReturns(c) ==
    /\ wpc[c] = "fallback_open"
    /\ wpc' = [wpc EXCEPT ![c] = "done"]
    /\ wresult' = [wresult EXCEPT ![c] = "fallback"]
    /\ UNCHANGED <<now, breakerVars, wcfg, wattempt, wcalls, wprobe, wrecorded, cacheVars, dispatchVars, restVars>>

WFallbackOpenRaises(c) ==
    /\ wpc[c] = "fallback_open"
    /\ WException(c, circuit_breakers, last)
    /\ UNCHANGED <<now, wcfg, wattempt, wcalls, wprobe, cacheVars, dispatchVars, restVars>>

\* The fallback awaited in the handler, after record_error, returns or raises.
WFallbackFinalReturns(c) ==
    /\ wpc[c] = "fallback_final"
    /\ wpc' = [wpc EXCEPT ![c] = "done"]
    /\ wresult' = [wresult EXCEPT ![c] = "fallback"]
    /\ UNCHANGED <<now, breakerVars, wcfg, wattempt, wcalls, wprobe, wrecorded, cacheVars, dispatchVars, restVars>>

WFallbackFinalRaises(c) ==
    /\ wpc[c] = "fallback_final"
    /\ wpc' = [wpc EXCEPT ![c] = "done"]
    /\ wresult' = [wresult EXCEPT ![c] = "raised"]
    /\ UNCHANGED <<now, breakerVars, wcfg, wattempt, wcalls, wprobe, wrecorded, cacheVars, dispatchVars, restVars>>

InitWrapper ==
    /\ InitLedger
    /\ InitWrapperIdle
    /\ wcfg \in [component : {"llm_api"}, operation : {"call"}, max_retries : 0..MaxRetries,
                 severity : WrapSeverities, fallback : BOOLEAN]
    /\ InitCache
    /\ InitDispatchIdle
    /\ InitRestIdle

NextWrapper ==
    \/ \E c \in Callers : WCall(c)
    \/ \E c \in Callers : WTop(c)
    \/ \E c \in Callers : WFuncReturns(c)
    \/ \E c \in Callers : WFuncRaises(c)
    \/ \E c \in Callers : WWake(c)
    \/ \E c \in Callers : WFallbackOpenReturns(c)
    \/ \E c \in Callers : WFallbackOpenRaises(c)
    \/ \E c \in Callers : WFallbackFinalReturns(c)
    \/ \E c \in Callers : WFallbackFinalRaises(c)
    \/ \E d \in BreakerTicks : Tick(d)

SpecWrapper == InitWrapper /\ [][NextWrapper]_vars

InitCacheSpec ==
    /\ InitLedger
    /\ InitWrapperIdle
    /\ wcfg = DefaultWrap
    /\ now = 0
    /\ InitCache
    /\ InitDispatchIdle
    /\ InitRestIdle

NextCache ==
    \/ \E c \in GetCalls : Get(c[1], c[2])
    \/ \E c \in SetCalls : Set(c[1], c[2], c[3], c[4])
    \/ ClearCache
    \/ \E d \in CacheTicks : TickCache(d)

SpecCache == InitCacheSpec /\ [][NextCache]_vars

(***************************************************************************)
(* KongPerformanceOptimizer.optimize_cache_settings                        *)
(* (app/services/kong_performance.py), the automatic tuning of the cache.  *)
(* The similarity threshold is in hundredths.  What performance_metrics    *)
(* reports for the last ten minutes is an input of the call.               *)
(***************************************************************************)
ThresholdFloor == 75         \* max(0.75, current_threshold - 0.05)
ThresholdCeiling == 90       \* min(0.90, current_threshold + 0.02)
SizeStep == 200              \* cache_stats['cache_size_limit'] + 200
SizeCap == 2000              \* min(2000, ...)

HitRates == {"low", "mid", "high"}    \* recent_cache_hit_rate: < 0.3, in between, > 0.7

Max(a, b) == IF a >= b THEN a ELSE b

\* the new similarity_threshold
TunedThreshold(th, rate, slow) ==
    IF rate = "low" /\ th > ThresholdFloor THEN Max(ThresholdFloor, th - 5)
    ELSE IF rate = "high" /\ slow /\ th < ThresholdCeiling THEN Min(ThresholdCeiling, th + 2)
    ELSE th

\* get_stats()['active_entries']: the entries that have not expired
ActiveEntries(c, t) == Cardinality({i \in 1..Len(c) : ~IsExpired(c[i], t)})

\* (variant: the limit is set to the number of active entries)
TunedCacheSizeToActive(limit, active) == active

\* the new max_cache_size: raised when cache_utilization > 0.9
TunedCacheSize(limit, active) ==
    IF active * 10 > 9 * limit THEN Min(SizeCap, limit + SizeStep) ELSE limit

\* optimize_cache_settings
OptimizeCacheSettings(rate, slow) ==
    /\ similarity_threshold' = TunedThreshold(similarity_threshold, rate, slow)
    /\ max_cache_size' = TunedCacheSize(max_cache_size, ActiveEntries(cache, now))
    /\ clast' = [NoCacheCall EXCEPT !.op = "optimize"]
    /\ UNCHANGED <<now, breakerVars, wrapperVars, dispatchVars, restVars, cache, query_vectors, fitted, vocabulary>>

\* The calls made on the cache while it is tuned.
TuningQueries == {"reset password", "reset"}
TuningGetCalls == TuningQueries \X Models
TuningSetCalls == TuningQueries \X Models \X {"r1"} \X TokenCounts
TuningTicks == {3601}        \* clock step: every entry stored before it has expired

InitTuning ==
    /\ InitLedger
    /\ InitWrapperIdle
    /\ wcfg = DefaultWrap
    /\ InitCache
    /\ InitDispatchIdle
    /\ InitRestIdle

NextTuning ==
    \/ \E c \in TuningGetCalls : Get(c[1], c[2])
    \/ \E c \in TuningSetCalls : Set(c[1], c[2], c[3], c[4])
    \/ \E rate \in HitRates, slow \in BOOLEAN : OptimizeCacheSettings(rate, slow)
    \/ \E d \in TuningTicks : TickCache(d)

SpecTuning == InitTuning /\ [][NextTuning]_vars

(***************************************************************************)
(* QueryProcessor.process_query, one request at a time.  The coroutine is  *)
(* cut at its awaits: the post of a transport call and the backoff sleep.  *)
(***************************************************************************)

\* The loop enters a link of the chain and posts its first call.
Enter(tr, link) ==
    Append(tr, [method |-> link.method, model |-> link.model, calls |-> 1, out |-> "pending"])

\* The link being tried ends with out.
Ended(tr, out) == [tr EXCEPT ![Len(tr)].out = out]

\* process_query after the dispatch has returned d: the response is stored
\* under the final model and the QueryResponse is built.
Finish(d, store) ==
    /\ IF store = "normal"
       THEN \E s \in {AfterSet(request.query, d.model, d.response, d.tokens)} : CacheBecomes(s)
       ELSE UNCHANGED cacheVars
    /\ qresult' = [kind |-> "response", response |-> d.response, model_used |-> d.model,
                   tokens_used |-> d.tokens, cached |-> d.cached, store_failed |-> store # "normal"]
    /\ qpc' = "done"

\* process_query from its start to the first post, or to its return on a cache hit.
ProcessQuery(q, lookup) ==
    /\ qpc \in {"idle", "done"}
    /\ nrequests < MaxRequests
    /\ nrequests' = nrequests + 1
    /\ \E a \in {AnalyzeQuery(SplitWords[q], "none")} : \E g \in {AfterGet(q, a.recommended_model)} :
          /\ request' = [query |-> q, recommended_model |-> a.recommended_model,
                         analysis_successful |-> a.analysis_successful,
                         lookup_failed |-> lookup # "normal"]
          /\ IF lookup = "normal" THEN CacheBecomes(g) ELSE UNCHANGED cacheVars
          /\ attempt' = 0
          /\ clean' = TRUE
          /\ wait' = 0
          /\ IF lookup = "normal" /\ g.ret.hit
             THEN /\ qpc' = "done"
                  /\ tried' = <<>>
                  /\ qresult' = [kind |-> "response", response |-> g.ret.response,
                                 model_used |-> a.recommended_model, tokens_used |-> 0,
                                 cached |-> TRUE, store_failed |-> FALSE]
             ELSE IF lookup # "normal" /\ OnLookupError = "raise"
             THEN /\ qpc' = "done"
                  /\ tried' = <<>>
                  /\ qresult' = [NoResult EXCEPT !.kind = "raised"]
             ELSE /\ qpc' = "post"
                  /\ tried' = Enter(<<>>, FallbackChain(a.recommended_model)[1])
                  /\ qresult' = NoResult
    /\ UNCHANGED <<now, breakerVars, wrapperVars, restVars>>

\* The failures of the link being tried, this one included, are all of the retried kinds.
StillClean(status) ==
    (attempt = 0 \/ clean) /\ status \in {"429", "500", "connect", "timeout"}

\* client.post returns or raises: the rest of the loop body, up to the next await.
Post(status, store) ==
    /\ qpc = "post"
    /\ LET chain == FallbackChain(request.recommended_model)
           link == tried[Len(tried)]
           r == IF link.method = "kong"
                THEN CallLlmViaKong(status, attempt, KongMaxRetries)
                ELSE CallGroqDirect(status, attempt, DirectMaxRetries)
       IN CASE r.kind = "return" ->
                 /\ tried' = Ended(tried, "ok")
                 /\ Finish([response |-> Completion.content, tokens |-> Completion.tokens,
                            cached |-> r.cached, model |-> link.model], store)
                 /\ UNCHANGED <<attempt, clean, wait>>
            [] r.kind = "sleep" ->
                 /\ qpc' = "sleep"
                 /\ wait' = r.wait
                 /\ clean' = StillClean(status)
                 /\ UNCHANGED <<tried, attempt, qresult, cacheVars>>
            [] r.kind = "raise" /\ Len(tried) < Len(chain) ->
                 /\ tried' = Enter(Ended(tried, "failed"), chain[Len(tried) + 1])
                 /\ attempt' = 0
                 /\ clean' = StillClean(status)
                 /\ UNCHANGED <<qpc, wait, qresult, cacheVars>>
            [] r.kind = "raise" /\ Len(tried) >= Len(chain) ->
                 /\ tried' = Ended(tried, "failed")
                 /\ Finish(AllFailed(request.query), store)
                 /\ clean' = StillClean(status)
                 /\ UNCHANGED <<attempt, wait>>
    /\ UNCHANGED <<now, breakerVars, wrapperVars, restVars, request, nrequests>>

\* asyncio.sleep(wait_time) returns: continue, the next iteration posts again.
Wake ==
    /\ qpc = "sleep"
    /\ qpc' = "post"
    /\ attempt' = attempt + 1
    /\ wait' = 0
    /\ tried' = [tried EXCEPT ![Len(tried)].calls = @ + 1]
    /\ UNCHANGED <<now, breakerVars, wrapperVars, restVars, cacheVars, request, clean, qresult, nrequests>>

\* An error of severity CRITICAL is recorded in the ledger while requests are processed.
LedgerError(key) ==
    /\ error_counts[key].count < MaxLedgerErrors
    /\ RecordError(key, "critical")

InitDispatch ==
    /\ InitLedger
    /\ InitWrapperIdle
    /\ wcfg = DefaultWrap
    /\ InitCache
    /\ InitDispatchIdle
    /\ InitRestIdle

NextDispatch ==
    \/ \E q \in RequestQueries, lookup \in CallOutcomes : ProcessQuery(q, lookup)
    \/ \E status \in Statuses, store \in CallOutcomes : Post(status, store)
    \/ Wake
    \/ \E k \in Keys : LedgerError(k)

SpecDispatch == InitDispatch /\ [][NextDispatch]_vars

\* The same, where every transport call (client.post) and every backoff
\* sleep (asyncio.sleep) that has been started returns.
SpecDispatchLive ==
    /\ InitDispatch
    /\ [][NextDispatch]_vars
    /\ WF_vars(\E status \in Statuses, store \in CallOutcomes : Post(status, store))
    /\ WF_vars(Wake)

(***************************************************************************)
(* The scoring and escalation functions, each applied once to an input     *)
(* drawn from the bounded sets.                                            *)
(***************************************************************************)
\* Where the response of a request comes from: the cache, the link of the
\* fallback chain that answered, or the canned text after the whole chain.
ResponseSources == {"cache", "link1", "link2", "link3", "link4", "fallback"}
SourceLink == [link1 |-> 1, link2 |-> 2, link3 |-> 3, link4 |-> 4]

\* usage.total_tokens of a completion
CompletionTokens == 12

\* process_query, from the lookup to the store: the response, the tokens, the
\* cached mark and the model reported, by the source of the response
AnswerFrom(source, recommended_model) ==
    IF source = "cache"
    THEN [response |-> "r1", tokens |-> 0, cached |-> TRUE, model |-> recommended_model]
    ELSE IF source = "fallback"
    THEN AllFailed("configure api")
    ELSE [response |-> "r1", tokens |-> CompletionTokens, cached |-> FALSE,
          model |-> FallbackChain(recommended_model)[SourceLink[source]].model]

Abs(x) == IF x < 0 THEN -x ELSE x

NoTicket == [reason |-> "none", priority |-> "none", status |-> "none", escalation_score |-> 0]

\* (variant: no ticket is raised for a request answered by the canned text)
ProcessQueryEscalationModelOnly(complexity_score, sentiment_score, answer) ==
    LET decision == ShouldEscalate(complexity_score, sentiment_score)
        escalation_score == Max(complexity_score, Abs(sentiment_score))
    IN [model_used |-> answer.model,
        cached |-> answer.cached,
        escalation_required |-> decision.escalate,
        escalation_reasons |-> decision.reasons,
        escalation_ticket |-> IF decision.escalate /\ answer.model # "fallback"
                              THEN NewTicket(decision.reasons, escalation_score)
                              ELSE NoTicket]

\* process_query: the escalation decision taken before the lookup, and the
\* ticket created after the response; what the QueryResponse reports of them
ProcessQueryEscalation(complexity_score, sentiment_score, answer) ==
    LET decision == ShouldEscalate(complexity_score, sentiment_score)
        escalation_score == Max(complexity_score, Abs(sentiment_score))
    IN [model_used |-> answer.model,
        cached |-> answer.cached,
        escalation_required |-> decision.escalate,
        escalation_reasons |-> decision.reasons,
        escalation_ticket |-> IF decision.escalate
                              THEN NewTicket(decision.reasons, escalation_score)
                              ELSE NoTicket]

ScoringCalls ==
    {[op |-> "should_escalate", done |-> FALSE, complexity_score |-> c, sentiment_score |-> x] :
         c \in ComplexityScores, x \in SentimentScores}
    \cup {[op |-> "create_escalation_ticket", done |-> FALSE, escalation_reasons |-> r, escalation_score |-> c] :
         r \in ReasonLists, c \in ComplexityScores}
    \cup {[op |-> "get_model_recommendation", done |-> FALSE, complexity_score |-> c] : c \in ComplexityScores}
    \cup {[op |-> "calculate_complexity", done |-> FALSE, query |-> ws, fault |-> f] :
         ws \in ScoringTexts, f \in {"none", "complexity"}}
    \cup {[op |-> "analyze_query", done |-> FALSE, query |-> ws, fault |-> f] :
         ws \in ScoringTexts, f \in Faults}
    \cup {[op |-> "analyze_sentiment", done |-> FALSE, textblob |-> a, vader |-> b] :
         a \in SourceOutcomes, b \in SourceOutcomes}
    \cup {[op |-> "process_query", done |-> FALSE, complexity_score |-> c, sentiment_score |-> x,
            sources |-> <<s1, s2>>, ret |-> <<>>] :
         c \in ComplexityScores, x \in SentimentScores, s1 \in ResponseSources, s2 \in ResponseSources}

\* The call drawn is op, and has not been made yet.
Drawn(op) == scall.op = op /\ ~scall.done

ScoringFrame == UNCHANGED <<now, breakerVars, wrapperVars, cacheVars, dispatchVars, threadVars, taskVars, sessionVars>>

ShouldEscalateCall ==
    /\ Drawn("should_escalate")
    /\ scall' = [op |-> scall.op, done |-> TRUE, complexity_score |-> scall.complexity_score,
                 sentiment_score |-> scall.sentiment_score,
                 ret |-> ShouldEscalate(scall.complexity_score, scall.sentiment_score)]
    /\ UNCHANGED crm_store
    /\ ScoringFrame

\* create_escalation_ticket: the ticket is built, logged to the CRM store and returned.
CreateEscalationTicketCall ==
    /\ Drawn("create_escalation_ticket")
    /\ \E ticket \in {NewTicket(scall.escalation_reasons, scall.escalation_score)} :
          /\ crm_store' = Append(crm_store, CrmRecord(ticket))
          /\ scall' = [op |-> scall.op, done |-> TRUE, escalation_reasons |-> scall.escalation_reasons,
                       escalation_score |-> scall.escalation_score, ret |-> ticket]
    /\ ScoringFrame

GetModelRecommendationCall ==
    /\ Drawn("get_model_recommendation")
    /\ scall' = [op |-> scall.op, done |-> TRUE, complexity_score |-> scall.complexity_score,
                 ret |-> GetModelRecommendation(scall.complexity_score)]
    /\ UNCHANGED crm_store
    /\ ScoringFrame

CalculateComplexityCall ==
    /\ Drawn("calculate_complexity")
    /\ scall' = [op |-> scall.op, done |-> TRUE, query |-> scall.query, fault |-> scall.fault,
                 ret |-> CalculateComplexity(scall.query, scall.fault)]
    /\ UNCHANGED crm_store
    /\ ScoringFrame

AnalyzeQueryCall ==
    /\ Drawn("analyze_query")
    /\ scall' = [op |-> scall.op, done |-> TRUE, query |-> scall.query, fault |-> scall.fault,
                 ret |-> AnalyzeQuery(scall.query, scall.fault)]
    /\ UNCHANGED crm_store
    /\ ScoringFrame

AnalyzeSentimentCall ==
    /\ Drawn("analyze_sentiment")
    /\ scall' = [op |-> scall.op, done |-> TRUE, textblob |-> scall.textblob, vader |-> scall.vader,
                 ret |-> AnalyzeSentiment(scall.textblob, scall.vader)]
    /\ UNCHANGED crm_store
    /\ ScoringFrame

\* process_query, run once for each of the two sources drawn: the scores are
\* those of the request, the ticket of an escalated request is logged.
ProcessQueryCall ==
    /\ Drawn("process_query")
    /\ \E out \in {ProcessQueryEscalation(scall.complexity_score, scall.sentiment_score,
                        AnswerFrom(scall.sources[Len(scall.ret) + 1],
                                   GetModelRecommendation(scall.complexity_score).model))} :
          /\ scall' = [scall EXCEPT !.ret = Append(@, out), !.done = (Len(scall.ret) = 1)]
          /\ crm_store' = IF out.escalation_ticket # NoTicket
                          THEN Append(crm_store, CrmRecord(out.escalation_ticket))
                          ELSE crm_store
    /\ ScoringFrame

InitScoring ==
    /\ InitLedger
    /\ InitWrapperIdle
    /\ wcfg = DefaultWrap
    /\ InitCache
    /\ InitDispatchIdle
    /\ scall \in ScoringCalls
    /\ crm_store = <<>>
    /\ InitThreadsIdle
    /\ rpc = [r \in Coroutines |-> NoTask]
    /\ InitSessionsIdle

NextScoring ==
    \/ ShouldEscalateCall
    \/ CreateEscalationTicketCall
    \/ GetModelRecommendationCall
    \/ CalculateComplexityCall
    \/ AnalyzeQueryCall
    \/ AnalyzeSentimentCall
    \/ ProcessQueryCall

SpecScoring == InitScoring /\ [][NextScoring]_vars

(***************************************************************************)
(* record_error called from several threads.  SystemErrorHandler has no    *)
(* lock; a thread can be preempted between any two of the steps below (the *)
(* calls of datetime.utcnow() and the separate load and store of += lie    *)
(* between them).  A key is in error_counts once its entry has a severity. *)
(***************************************************************************)
ThreadKey == ErrKey("llm_api", "call")
ThreadSeverities == {"high", "critical"}

ThreadFrame == UNCHANGED <<now, fallback_history, wrapperVars, cacheVars, dispatchVars, scoringVars, taskVars, sessionVars>>

\* Calls that have been started and have not returned.
Running == Cardinality({t \in Threads : tpc[t] # "idle"})

\* A thread calls record_error(operation, component, severity).
TCall(t, severity) ==
    /\ tpc[t] = "idle"
    /\ tcalls + Running < MaxThreadCalls
    /\ tpc' = [tpc EXCEPT ![t] = "check"]
    /\ tsev' = [tsev EXCEPT ![t] = severity]
    /\ UNCHANGED <<error_counts, circuit_breakers, last, run, ttmp, tcalls>>
    /\ ThreadFrame

\* if key not in self.error_counts
TCheck(t) ==
    /\ tpc[t] = "check"
    /\ tpc' = [tpc EXCEPT ![t] = IF error_counts[ThreadKey].severity = "none" THEN "init" ELSE "load"]
    /\ UNCHANGED <<error_counts, circuit_breakers, last, run, tsev, ttmp, tcalls>>
    /\ ThreadFrame

\* self.error_counts[key] = {'count': 0, ...}
TInit(t) ==
    /\ tpc[t] = "init"
    /\ error_counts' = [error_counts EXCEPT ![ThreadKey] = [count |-> 0, severity |-> tsev[t]]]
    /\ tpc' = [tpc EXCEPT ![t] = "load"]
    /\ UNCHANGED <<circuit_breakers, last, run, tsev, ttmp, tcalls>>
    /\ ThreadFrame

\* self.error_counts[key]['count'] += 1: the count is loaded
TLoad(t) ==
    /\ tpc[t] = "load"
    /\ ttmp' = [ttmp EXCEPT ![t] = error_counts[ThreadKey].count]
    /\ tpc' = [tpc EXCEPT ![t] = "store"]
    /\ UNCHANGED <<error_counts, circuit_breakers, last, run, tsev, tcalls>>
    /\ ThreadFrame

\* self.error_counts[key]['count'] += 1: the sum is stored
TStore(t) ==
    /\ tpc[t] = "store"
    /\ error_counts' = [error_counts EXCEPT ![ThreadKey].count = ttmp[t] + 1]
    /\ tpc' = [tpc EXCEPT ![t] = "threshold"]
    /\ UNCHANGED <<circuit_breakers, last, run, tsev, ttmp, tcalls>>
    /\ ThreadFrame

\* if count >= self.error_thresholds[severity]: _trigger_circuit_breaker; return
TThreshold(t) ==
    /\ tpc[t] = "threshold"
    /\ circuit_breakers' = IF error_counts[ThreadKey].count >= error_thresholds[tsev[t]]
                           THEN TriggerCircuitBreaker(circuit_breakers, error_counts, ThreadKey, tsev[t], now)
                           ELSE circuit_breakers
    /\ run' = RunAfterError(run, circuit_breakers, ThreadKey, tsev[t])
    /\ last' = [op |-> "record_error", key |-> ThreadKey, ret |-> FALSE]
    /\ tpc' = [tpc EXCEPT ![t] = "idle"]
    /\ tcalls' = tcalls + 1
    /\ UNCHANGED <<error_counts, tsev, ttmp>>
    /\ ThreadFrame

InitThreads ==
    /\ InitLedger
    /\ InitWrapperIdle
    /\ wcfg = DefaultWrap
    /\ InitCache
    /\ InitDispatchIdle
    /\ InitRestIdle

NextThreads ==
    \/ \E t \in Threads, severity \in ThreadSeverities : TCall(t, severity)
    \/ \E t \in Threads : TCheck(t)
    \/ \E t \in Threads : TInit(t)
    \/ \E t \in Threads : TLoad(t)
    \/ \E t \in Threads : TStore(t)
    \/ \E t \in Threads : TThreshold(t)

SpecThreads == InitThreads /\ [][NextThreads]_vars

(***************************************************************************)
(* Concurrent requests.  process_query is a coroutine of the one event     *)
(* loop (every route is async def); semantic_cache.get and .set are plain  *)
(* calls without an await inside, so each runs to its end before another   *)
(* request continues.  Requests interleave at the await of the dispatch.   *)
(***************************************************************************)

\* What _process_llm_request_with_fallbacks can return for a request: the
\* completion of one of the links of its chain, or the canned response.
DispatchResults(q, preferred_model) ==
    {[response |-> Completion.content, tokens |-> Completion.tokens, cached |-> FALSE,
      model |-> FallbackChain(preferred_model)[i].model] : i \in 1..Len(FallbackChain(preferred_model))}
    \cup {AllFailed(q)}

AllDispatchResults ==
    UNION {DispatchResults(q, AnalyzeQuery(SplitWords[q], "none").recommended_model) : q \in RequestQueries}

TaskFrame == UNCHANGED <<now, breakerVars, wrapperVars, dispatchVars, scoringVars, threadVars, sessionVars>>

\* A request arrives: process_query up to its return on a cache hit, or up to
\* the await of the dispatch.
TaskLookup(r, q) ==
    /\ rpc[r].pc = "idle"
    /\ \E a \in {AnalyzeQuery(SplitWords[q], "none")} : \E g \in {AfterGet(q, a.recommended_model)} :
          /\ CacheBecomes(g)
          /\ rpc' = [rpc EXCEPT ![r] = IF g.ret.hit
                                       THEN NoTask
                                       ELSE [pc |-> "await", query |-> q, model |-> a.recommended_model]]
    /\ TaskFrame

\* The dispatch returns d: the response is stored and process_query returns.
TaskStore(r, d) ==
    /\ rpc[r].pc = "await"
    /\ d \in DispatchResults(rpc[r].query, rpc[r].model)
    /\ \E a \in {AfterSet(rpc[r].query, d.model, d.response, d.tokens)} : CacheBecomes(a)
    /\ rpc' = [rpc EXCEPT ![r] = NoTask]
    /\ TaskFrame

InitTasks ==
    /\ InitLedger
    /\ InitWrapperIdle
    /\ wcfg = DefaultWrap
    /\ InitCache
    /\ InitDispatchIdle
    /\ InitRestIdle

NextTasks ==
    \/ \E r \in Coroutines, q \in RequestQueries : TaskLookup(r, q)
    \/ \E r \in Coroutines, d \in AllDispatchResults : TaskStore(r, d)

SpecTasks == InitTasks /\ [][NextTasks]_vars

(***************************************************************************)
(* SessionManager: the event loop thread calls create_session, get_session,*)
(* add_message_to_session and (POST /sessions/backup) backup_sessions_to_  *)
(* file; the daemon thread runs _auto_backup_worker.  The two threads      *)
(* interleave at every step below.  A flush is backup_sessions_to_file.    *)
(***************************************************************************)
SessionFrame == UNCHANGED <<now, breakerVars, wrapperVars, cacheVars, dispatchVars, scoringVars, threadVars, taskVars>>

\* What a flush writes.
Snapshot == [sessions |-> sessions, messages |-> messages]

\* create_session is called and reaches "with self._lock".
CreateSessionCall ==
    /\ lpc = "idle"
    /\ sessions < MaxSessions
    /\ lpc' = "create_wait"
    /\ UNCHANGED <<sessions, messages, lock, bpc, stop_backup, backup_file>>
    /\ SessionFrame

\* get_session is called and reaches "with self._lock".
GetSessionCall ==
    /\ lpc = "idle"
    /\ lpc' = "get_wait"
    /\ UNCHANGED <<sessions, messages, lock, bpc, stop_backup, backup_file>>
    /\ SessionFrame

\* The event loop thread acquires the lock it is waiting for.
LoopAcquire ==
    /\ lpc \in {"create_wait", "get_wait"}
    /\ lock = "free"
    /\ lock' = "loop"
    /\ lpc' = IF lpc = "create_wait" THEN "create" ELSE "get"
    /\ UNCHANGED <<sessions, messages, bpc, stop_backup, backup_file>>
    /\ SessionFrame

\* The body of create_session; the lock is released on return.
CreateSessionBody ==
    /\ lpc = "create"
    /\ sessions' = sessions + 1
    /\ lock' = "free"
    /\ lpc' = "idle"
    /\ UNCHANGED <<messages, bpc, stop_backup, backup_file>>
    /\ SessionFrame

\* The body of get_session; the lock is released on return.
GetSessionBody ==
    /\ lpc = "get"
    /\ lock' = "free"
    /\ lpc' = "idle"
    /\ UNCHANGED <<sessions, messages, bpc, stop_backup, backup_file>>
    /\ SessionFrame

\* add_message_to_session: does not take the lock.
AddMessageToSession ==
    /\ lpc = "idle"
    /\ sessions > 0
    /\ messages < MaxMessages
    /\ messages' = messages + 1
    /\ UNCHANGED <<sessions, lock, bpc, lpc, stop_backup, backup_file>>
    /\ SessionFrame

\* POST /sessions/backup: backup_sessions_to_file is called without the lock.
BackupSessionsCall ==
    /\ lpc = "idle"
    /\ lpc' = "backup"
    /\ UNCHANGED <<sessions, messages, lock, bpc, stop_backup, backup_file>>
    /\ SessionFrame

\* The flush started by the route has written the file.
BackupSessionsReturn ==
    /\ lpc = "backup"
    /\ backup_file' = Snapshot
    /\ lpc' = "idle"
    /\ UNCHANGED <<sessions, messages, lock, bpc, stop_backup>>
    /\ SessionFrame

\* stop_auto_backup
StopAutoBackup ==
    /\ lpc = "idle"
    /\ ~stop_backup
    /\ stop_backup' = TRUE
    /\ UNCHANGED <<sessions, messages, lock, bpc, lpc, backup_file>>
    /\ SessionFrame

\* _auto_backup_worker: time.sleep returns; if not self._stop_backup the
\* thread reaches "with self._lock", else the loop ends.
WorkerWake ==
    /\ bpc = "sleep"
    /\ bpc' = IF stop_backup THEN "stopped" ELSE "lock_wait"
    /\ UNCHANGED <<sessions, messages, lock, lpc, stop_backup, backup_file>>
    /\ SessionFrame

\* The backup thread acquires the lock and starts its flush.
WorkerAcquire ==
    /\ bpc = "lock_wait"
    /\ lock = "free"
    /\ lock' = "worker"
    /\ bpc' = "flush"
    /\ UNCHANGED <<sessions, messages, lpc, stop_backup, backup_file>>
    /\ SessionFrame

\* The flush of the backup thread has written the file; the lock is released
\* and the loop goes on (while not self._stop_backup).
WorkerFlushed ==
    /\ bpc = "flush"
    /\ backup_file' = Snapshot
    /\ lock' = "free"
    /\ bpc' = IF stop_backup THEN "stopped" ELSE "sleep"
    /\ UNCHANGED <<sessions, messages, lpc, stop_backup>>
    /\ SessionFrame

InitSessions ==
    /\ InitLedger
    /\ InitWrapperIdle
    /\ wcfg = DefaultWrap
    /\ InitCache
    /\ InitDispatchIdle
    /\ InitRestIdle

NextSessions ==
    \/ CreateSessionCall
    \/ GetSessionCall
    \/ LoopAcquire
    \/ CreateSessionBody
    \/ GetSessionBody
    \/ AddMessageToSession
    \/ BackupSessionsCall
    \/ BackupSessionsReturn
    \/ StopAutoBackup
    \/ WorkerWake
    \/ WorkerAcquire
    \/ WorkerFlushed

SpecSessions == InitSessions /\ [][NextSessions]_vars

(***************************************************************************)
(* Properties of the circuit breaker                                       *)
(***************************************************************************)

\* The state a caller observes: a key without a breaker behaves as CLOSED.
BreakerState(k) ==
    IF circuit_breakers[k].state = "NONE" THEN "CLOSED" ELSE circuit_breakers[k].state

WithinCooldown(k) ==
    circuit_breakers[k].state # "NONE" => now - circuit_breakers[k].opened_at <= CooldownSeconds

\* C1: for every key and every sequence of record_error, record_success and
\* is_circuit_open calls, the breaker state changes only by CLOSED->OPEN,
\* OPEN->HALF_OPEN or HALF_OPEN->CLOSED; an OPEN breaker never becomes CLOSED
\* in one step.
C1_Transitions ==
    [][\A k \in Keys :
         BreakerState(k)' # BreakerState(k) =>
             <<BreakerState(k), BreakerState(k)'>> \in
                 {<<"CLOSED", "OPEN">>, <<"OPEN", "HALF_OPEN">>, <<"HALF_OPEN", "CLOSED">>}]_vars

\* record_success was called on an OPEN breaker whose cooldown is over, and it is still OPEN.
C1_Witness ==
    /\ last.op = "record_success"
    /\ circuit_breakers[last.key].state = "OPEN"
    /\ now - circuit_breakers[last.key].opened_at > CooldownSeconds

\* C2 (as stated): for a key that has no breaker yet and a fixed severity s,
\* after n calls of record_error with s, is_circuit_open returns true exactly
\* when n has reached the threshold of s.
C2_Original ==
    \A k \in Keys :
        (last.op = "is_circuit_open" /\ last.key = k /\ run[k].fresh) =>
            (last.ret <=> run[k].n >= error_thresholds[run[k].sev])

\* C2 (amended): for a key with no recorded error and no breaker, after n calls
\* of record_error that all carry severity s, an is_circuit_open call made
\* before the cooldown of the opening has run out returns true exactly when n
\* has reached the threshold of s.
C2_Thresholds ==
    \A k \in Keys :
        (/\ last.op = "is_circuit_open" /\ last.key = k
         /\ run[k].n = error_counts[k].count
         /\ WithinCooldown(k)) =>
            (last.ret <=> (run[k].n > 0 /\ run[k].n >= error_thresholds[run[k].sev]))

\* ten LOW errors and nothing else were recorded, and is_circuit_open answered true.
C2_Witness ==
    /\ last.op = "is_circuit_open"
    /\ last.ret
    /\ run[last.key].sev = "low"
    /\ run[last.key].n = 10
    /\ error_counts[last.key].count = 10

\* C3: once OPEN, is_circuit_open returns true on every call until the cooldown
\* (5 minutes since opened_at) has elapsed and the breaker stays OPEN; the first
\* is_circuit_open call after the cooldown moves it to HALF_OPEN and returns
\* false; it then stays HALF_OPEN until the first record_success, which moves
\* it to CLOSED.
C3_Cooldown ==
    [][\A k \in Keys :
         /\ (circuit_breakers[k].state = "OPEN" /\ last'.op = "is_circuit_open" /\ last'.key = k) =>
                IF now - circuit_breakers[k].opened_at > CooldownSeconds
                THEN ~last'.ret /\ circuit_breakers'[k].state = "HALF_OPEN"
                ELSE last'.ret /\ circuit_breakers'[k].state = "OPEN"
         /\ (circuit_breakers[k].state = "OPEN" /\ circuit_breakers'[k].state # "OPEN") =>
                (last'.op = "is_circuit_open" /\ last'.key = k)
         /\ (circuit_breakers[k].state = "HALF_OPEN" /\ last'.op = "record_success" /\ last'.key = k) =>
                circuit_breakers'[k].state = "CLOSED"
         /\ (circuit_breakers[k].state = "HALF_OPEN" /\ circuit_breakers'[k].state # "HALF_OPEN") =>
                (last'.op = "record_success" /\ last'.key = k)]_vars

\* a record_success has just closed a breaker that was opened, cooled down and probed.
C3_Witness ==
    /\ last.op = "record_success"
    /\ circuit_breakers[last.key].state = "CLOSED"

\* C4: if record_error is called for a key while its breaker is HALF_OPEN, the
\* breaker is reopened: the state becomes OPEN.
C4_ReopenFromHalfOpen ==
    [][\A k \in Keys :
         (circuit_breakers[k].state = "HALF_OPEN" /\ last'.op = "record_error" /\ last'.key = k) =>
             circuit_breakers'[k].state = "OPEN"]_vars

\* C5: for a key whose breaker has gone OPEN -> HALF_OPEN -> CLOSED, a further
\* run of `threshold` failures opens it again: a CLOSED breaker never has a
\* run of threshold-many failures recorded since it closed.
C5_ReopenAfterClose ==
    \A k \in Keys :
        circuit_breakers[k].state = "CLOSED" =>
            (run[k].sev = "none" \/ run[k].n < error_thresholds[run[k].sev])

\* C6: when several callers check the same breaker after the cooldown, one
\* probe is allowed through while it is HALF_OPEN: at most one caller whose
\* check let it through on a HALF_OPEN breaker is inside the protected
\* operation before a success or failure has been recorded for the probe.
C6_SingleProbe ==
    Cardinality({c \in Callers : wpc[c] = "func" /\ wprobe[c]}) <= 1

(***************************************************************************)
(* Properties of the semantic cache                                        *)
(***************************************************************************)

\* C7: after any sequence of set and get calls at any times, get never returns
\* the response of an entry whose age (now - created_at) exceeds ttl_seconds,
\* through the exact-key path or through the similarity path.
C7_NoExpiredHit ==
    (clast.op = "get" /\ clast.ret.hit) =>
        /\ HasKey(cache, clast.ret.src)
        /\ now - EntryOf(cache, clast.ret.src).created_at <= TtlSeconds

\* get was asked for a key whose entry had expired, and answered None.
C7_Witness ==
    /\ clast.op = "get"
    /\ clast.stale
    /\ ~clast.ret.hit

\* C8: a set that inserts a new key into a cache holding max_cache_size
\* entries evicts exactly one entry, one with the smallest created_at, and
\* every other entry present before the call is still present, unchanged,
\* after it, together with the new entry.
C8_EvictsOldestOnly ==
    [][(/\ clast'.op = "set" /\ clast'.response # ""
        /\ Len(cache) >= max_cache_size
        /\ ~HasKey(cache, GetCacheKey(clast'.query, clast'.model))) =>
           LET gone == KeysOf(cache) \ KeysOf(cache')
           IN /\ Cardinality(gone) = 1
              /\ \A k \in gone : \A i \in 1..Len(cache) :
                     EntryOf(cache, k).created_at <= cache[i].created_at
              /\ \A i \in 1..Len(cache) :
                     cache[i].key \notin gone =>
                         (HasKey(cache', cache[i].key) /\ EntryOf(cache', cache[i].key) = cache[i])
              /\ HasKey(cache', GetCacheKey(clast'.query, clast'.model))
              /\ Len(cache') = Len(cache)]_vars

\* a set of a new key has just evicted another entry from the full cache
\* after time had passed, and an entry written at time 0 was kept.
C8_Witness ==
    /\ clast.op = "set"
    /\ clast.evicted # ""
    /\ clast.evicted # GetCacheKey(clast.query, clast.model)
    /\ Len(cache) = max_cache_size
    /\ \E i \in 1..Len(cache) : cache[i].created_at = 0 /\ now > 0

\* C9: for every non-blank query q, model m and non-empty response r,
\* set(q, m, r, k) immediately followed by get(q, m) returns r with cached=true
\* and similarity=1.0, whatever the cache held before the set.
C9_RoundTrip ==
    (clast.op = "get" /\ clast.prev # "none") =>
        /\ clast.ret.hit
        /\ clast.ret.response = clast.prev
        /\ clast.ret.cached
        /\ clast.ret.similarity = ExactSimilarity

\* a get right after the set of its query and model, for a query the
\* vectorizer finds no term in, on a cache that the set had found full.
C9_Witness ==
    /\ clast.op = "get"
    /\ clast.prev # "none"
    /\ clast.ret.hit
    /\ Len(cache) = max_cache_size
    /\ EntryOf(cache, clast.ret.src).query \notin DOMAIN query_vectors

\* C10: get(q, m) never returns the response of an entry stored under a model
\* other than m, through the exact-key or the similarity path, even when the
\* stored query text is identical to q.
C10_SameModelOnly ==
    (clast.op = "get" /\ clast.ret.hit) =>
        /\ HasKey(cache, clast.ret.src)
        /\ EntryOf(cache, clast.ret.src).model = clast.model

\* get found the identical query text cached under the other model only, and answered None.
C10_Witness ==
    /\ clast.op = "get"
    /\ clast.twin
    /\ ~clast.ret.hit

\* The entries of the cache that have not expired at the time of the call.
Unexpired == {i \in 1..Len(cache) : ~(now - cache[i].created_at > TtlSeconds)}

\* No unexpired entry is stored under the exact key of (q, m).
NoExactEntry(q, m) == \A i \in Unexpired : ~(cache[i].query = q /\ cache[i].model = m)

\* The cosine similarity of the query q to the text of entry i, over the vocabulary vocab.
SimilarityTo(q, i, vocab) == Cosine(Transform(q, vocab), Transform(cache[i].query, vocab))

\* The unexpired entries of model m whose similarity to q reaches the threshold.
Candidates(q, m, vocab) ==
    {i \in Unexpired : /\ cache[i].model = m
                       /\ SimAtLeast(SimilarityTo(q, i, vocab), similarity_threshold)}

\* C11: when get(q, m) has no exact-key entry, it returns a hit exactly when
\* some unexpired entry of model m has cosine similarity to q at or above
\* similarity_threshold, and the entry returned is one with the highest
\* similarity among those entries; otherwise it returns None.
C11_SimilarityLookup ==
    [][\A c \in GetCalls :
          (Get(c[1], c[2]) /\ NoExactEntry(c[1], c[2])) =>
              LET cand == Candidates(c[1], c[2], vocabulary')
              IN /\ clast'.ret.hit <=> cand # {}
                 /\ clast'.ret.hit =>
                        \E i \in cand :
                            /\ cache[i].key = clast'.ret.src
                            /\ \A j \in cand : ~SimGreater(SimilarityTo(c[1], j, vocabulary'),
                                                           SimilarityTo(c[1], i, vocabulary'))]_vars

\* C12: when two or more same-model entries tie for the highest similarity to
\* the query (all at or above the threshold), the similarity lookup returns the
\* most recently created of them.
C12_TieMostRecent ==
    [][\A c \in GetCalls :
          (Get(c[1], c[2]) /\ NoExactEntry(c[1], c[2]) /\ clast'.ret.hit) =>
              LET cand == Candidates(c[1], c[2], vocabulary')
                  best == {i \in cand : \A j \in cand :
                               ~SimGreater(SimilarityTo(c[1], j, vocabulary'),
                                           SimilarityTo(c[1], i, vocabulary'))}
              IN \A i \in best : cache[i].created_at <= EntryOf(cache, clast'.ret.src).created_at]_vars

\* C13: an empty or whitespace-only query is rejected by the cache: get
\* returns None and set stores nothing, and in both cases the cache entries
\* and vectors are exactly what they were before the call; set with an empty
\* response is rejected the same way.
C13_BlankRejected ==
    [][/\ \A c \in GetCalls :
             (c[1] \in BlankQueries /\ Get(c[1], c[2])) =>
                 (~clast'.ret.hit /\ cache' = cache /\ query_vectors' = query_vectors)
       /\ \A c \in SetCalls :
             ((c[1] \in BlankQueries \/ c[3] = "") /\ Set(c[1], c[2], c[3], c[4])) =>
                 (cache' = cache /\ query_vectors' = query_vectors)]_vars

\* a get was answered None while the cache held an expired entry that it left
\* in place: only a get with a blank query does that.
C13_Witness ==
    /\ clast.op = "get"
    /\ ~clast.ret.hit
    /\ \E i \in 1..Len(cache) : now - cache[i].created_at > TtlSeconds

(***************************************************************************)
(* Properties of the dispatch                                              *)
(***************************************************************************)

\* The link of the chain being tried, and the link after the step.
Link == tried[Len(tried)]
LinkAfter == tried'[Len(tried)]

\* C14: a dispatch attempts the plan steps strictly in the order (gateway,
\* preferred), (direct, preferred), (direct, capable default), (direct, cheap
\* default): a step is attempted only after every earlier step has failed,
\* and as soon as one step succeeds the dispatch returns that step's response
\* and model and no later step is attempted.
C14_PlanOrder ==
    LET plan == << <<"kong", request.recommended_model>>,
                   <<"direct", request.recommended_model>>,
                   <<"direct", "llama-3.3-70b-versatile">>,
                   <<"direct", "llama-3.1-8b-instant">> >>
    IN /\ Len(tried) <= 4
       /\ \A i \in 1..Len(tried) :
              /\ tried[i].method = plan[i][1]
              /\ tried[i].model = plan[i][2]
              /\ tried[i].calls >= 1
              /\ i < Len(tried) => tried[i].out = "failed"
       /\ (tried # <<>> /\ Link.out = "ok") =>
              /\ qpc = "done"
              /\ qresult.kind = "response"
              /\ qresult.response = Completion.content
              /\ qresult.model_used = Link.model

\* the third step answered after the first two had failed; the fourth was not attempted.
C14_Witness ==
    /\ qpc = "done"
    /\ Len(tried) = 3
    /\ tried[3].out = "ok"
    /\ request.recommended_model = "openai/gpt-oss-120b"
    /\ qresult.model_used = "llama-3.3-70b-versatile"

\* C15: if every plan step fails, whatever the failure kinds, the dispatch
\* does not raise: it returns a static response with modelUsed="fallback",
\* tokens=0 and cached=false.
C15_AllFailFallback ==
    (Len(tried) = 4 /\ tried[4].out = "failed") =>
        /\ qpc = "done"
        /\ qresult.kind = "response"
        /\ qresult.response \in {"canned:general", "canned:technical"}
        /\ qresult.model_used = "fallback"
        /\ qresult.tokens_used = 0
        /\ qresult.cached = FALSE

\* all four steps failed, one direct step on its first call and another after all its retries.
C15_Witness ==
    /\ Len(tried) = 4
    /\ tried[4].out = "failed"
    /\ tried[1].calls = 3
    /\ tried[2].calls = 1
    /\ tried[3].calls = 4
    /\ qresult.model_used = "fallback"

\* C16: within one plan step, a call that fails with HTTP 429, a status >=
\* 500, a connect error or a timeout is retried up to the transport's maximum
\* (gateway: 2 retries, direct: 3 retries): a step whose every call fails this
\* way makes exactly 3 gateway calls or 4 direct calls and then the dispatch
\* advances to the next step.
C16_RetryBudget ==
    [][\A status \in {"429", "500", "connect", "timeout"}, store \in CallOutcomes :
          Post(status, store) =>
              LET limit == IF Link.method = "kong" THEN 3 ELSE 4
              IN /\ Link.calls < limit => (qpc' = "sleep" /\ LinkAfter.out = "pending")
                 /\ (Link.calls >= limit \/ LinkAfter.out = "failed") =>
                        /\ clean' => Link.calls = limit
                        /\ LinkAfter.out = "failed"
                        /\ LinkAfter.calls = Link.calls
                        /\ Len(tried') = Len(tried) + 1 \/ (Len(tried) = 4 /\ qpc' = "done")]_vars

\* the gateway step failed after 3 calls and the direct step after 4, every
\* one of them failing in one of the four ways, and the third step has begun.
C16_Witness ==
    /\ qpc = "post"
    /\ Len(tried) = 3
    /\ tried[1].calls = 3
    /\ tried[2].calls = 4
    /\ tried[3].calls = 1
    /\ attempt = 0
    /\ clean

\* C17: on either transport (gateway or direct), a response with status 401,
\* or any status other than 200, 429 and 5xx, is fatal for that step: the
\* step makes no further call after it (no retry, no backoff sleep) and the
\* dispatch moves to the next plan step.
C17_FatalStatus ==
    [][\A status \in {"401", "404"}, store \in CallOutcomes :
          Post(status, store) => (qpc' # "sleep" /\ LinkAfter.out = "failed")]_vars

\* Every breaker of the ledger is OPEN and in its cooldown.
AllBreakersOpen ==
    \A k \in Keys : circuit_breakers[k].state = "OPEN" /\ WithinCooldown(k)

\* C18: during a dispatch, a plan step whose circuit breaker is OPEN is
\* skipped immediately: no transport call is made for that step and the
\* dispatch proceeds to the next step.  (Whichever key a step has, it is OPEN
\* when every breaker is.)
C18_OpenStepSkipped ==
    [][(tried' # tried /\ tried' # <<>> /\ Len(tried') # Len(tried)) => ~AllBreakersOpen]_vars

\* C19: every plan step outcome of a dispatch is recorded in the circuit
\* breaker: a step that exhausts its retries records one failure against that
\* step's breaker key, and a step that succeeds records a success for its key.
C19_OutcomesRecorded ==
    [][\A status \in Statuses, store \in CallOutcomes :
          Post(status, store) =>
              /\ LinkAfter.out = "failed" =>
                     \E k \in Keys : error_counts'[k].count = error_counts[k].count + 1
              /\ LinkAfter.out = "ok" => last'.op = "record_success"]_vars

Made(op) == scall.op = op /\ scall.done

Among(reasons, r) == \E i \in 1..Len(reasons) : reasons[i] = r

C22_TicketPriority ==
    Made("create_escalation_ticket") =>
        LET score == scall.escalation_score
            expected == IF score >= 900 \/ Among(scall.escalation_reasons, "sentiment") THEN "critical"
                        ELSE IF score >= 800 THEN "high"
                        ELSE IF score >= 600 THEN "medium"
                        ELSE "low"
        IN /\ scall.ret.priority = expected
           /\ crm_store # <<>>
           /\ crm_store[Len(crm_store)].priority = expected

\* A ticket was created for a score below 0.6 with "sentiment" among the
\* reasons, and it is critical.
C22_Witness ==
    /\ Made("create_escalation_ticket")
    /\ scall.escalation_score = 599
    /\ scall.escalation_reasons = <<"complexity", "sentiment">>
    /\ scall.ret.priority = "critical"
    /\ Len(crm_store) = 1

\* C23: the model recommendation is a step function of the complexity score:
\* below 0.3 the cheap model without the escalation flag, from 0.3 up to but
\* excluding 0.8 the capable model without the flag, at 0.8 or above the
\* capable model with the flag.
C23_RecommendationSteps ==
    Made("get_model_recommendation") =>
        LET c == scall.complexity_score
        IN /\ c < 300 => scall.ret = [model |-> "llama-3.3-70b-versatile", escalation_flag |-> FALSE]
           /\ (c >= 300 /\ c < 800) => scall.ret = [model |-> "openai/gpt-oss-120b", escalation_flag |-> FALSE]
           /\ c >= 800 => scall.ret = [model |-> "openai/gpt-oss-120b", escalation_flag |-> TRUE]

\* get_model_recommendation has answered the score 0.8 with the capable model
\* and the escalation flag.
C23_Witness ==
    /\ Made("get_model_recommendation")
    /\ scall.complexity_score = 800
    /\ scall.ret.model = "openai/gpt-oss-120b"
    /\ scall.ret.escalation_flag

\* C24: whenever a scoring step of analyze_query fails, a failure inside
\* calculate_complexity included, the result carries the mid-range default
\* complexity 0.5 and analysis_successful = false.
C24_ScoringTotal ==
    (Made("analyze_query") /\ scall.query # <<>> /\ scall.fault # "none") =>
        /\ scall.ret.complexity_score = 500
        /\ ~scall.ret.analysis_successful

\* C25: analyze_sentiment reports analysis_successful = false (with sentiment
\* 0.0 and no escalation) exactly when both signal sources failed; when the
\* sources succeeded it reports true, also when both score the text neutral.
C25_FailureDistinguishable ==
    Made("analyze_sentiment") =>
        /\ ~scall.ret.analysis_successful <=> (scall.textblob.failed /\ scall.vader.failed)
        /\ ~scall.ret.analysis_successful =>
               (scall.ret.sentiment_score = 0 /\ ~scall.ret.escalation_required)

C27_AtomicRecordError ==
    (\A t \in Threads : tpc[t] = "idle") =>
        /\ error_counts[ThreadKey].count = tcalls
        /\ tcalls >= 3 => circuit_breakers[ThreadKey].state = "OPEN"

\* C28: with requests running concurrently on a full cache, insert + evict of
\* SemanticCache.set is one atomic step: a storing call evicts at most one
\* entry, the entry it inserts is in the cache when it returns, and the cache
\* never holds more than max_cache_size entries.
C28_AtomicInsertEvict ==
    [][\A r \in Coroutines, d \in AllDispatchResults :
          TaskStore(r, d) =>
              /\ Cardinality(KeysOf(cache) \ KeysOf(cache')) <= 1
              /\ Len(cache') <= max_cache_size
              /\ ~IsBlank(rpc[r].query) =>
                     /\ HasKey(cache', GetCacheKey(rpc[r].query, d.model))
                     /\ EntryOf(cache', GetCacheKey(rpc[r].query, d.model)).response = d.response]_vars

\* A request has just stored its response in the full cache, which evicted
\* one entry, while another request is waiting for its dispatch.
C28_Witness ==
    /\ clast.op = "set"
    /\ clast.evicted # ""
    /\ Len(cache) = max_cache_size
    /\ \E r \in Coroutines : rpc[r].pc = "await"

\* C29: the periodic flush of the session state never blocks request
\* handling (create_session and get_session do not have to wait while a flush
\* is in progress), and two flushes never run at the same time.
C29_FlushNeverBlocks ==
    /\ ~(bpc = "flush" /\ lpc \in {"create_wait", "get_wait"})
    /\ ~(bpc = "flush" /\ lpc = "backup")

(***************************************************************************)
(* Properties of the with_error_handling wrapper                           *)
(***************************************************************************)

\* In the caller's current call every attempt has invoked the wrapped
\* function: no breaker check of the call answered "open".
NeverOpen(c) == wcalls[c] = wattempt[c] + 1

\* C30: for a function wrapped with max_retries = R whose first k calls fail
\* and whose next call succeeds, k <= R and the breaker not open, the wrapper
\* returns the function's result after exactly k + 1 invocations, without the
\* fallback and without recording an error: a call that never met an open
\* breaker ends otherwise only after R + 1 failed invocations.
C30_RecoversWithinBudget ==
    \A c \in Callers :
        (wpc[c] = "done" /\ NeverOpen(c)) =>
            /\ wresult[c] = "result" =>
                   (wattempt[c] <= wcfg.max_retries /\ ~wrecorded[c])
            /\ wresult[c] # "result" =>
                   (wattempt[c] = wcfg.max_retries /\ wrecorded[c])

\* With max_retries = 1, a caller's first invocation failed, the second
\* returned, and the wrapper returned that result without recording an error.
C30_Witness ==
    \E c \in Callers :
        /\ wpc[c] = "done"
        /\ wcfg.max_retries = 1
        /\ wresult[c] = "result"
        /\ wattempt[c] = 1
        /\ wcalls[c] = 2
        /\ ~wrecorded[c]

\* The caller's call has ended and none of its invocations returned: the
\* wrapped function failed whenever it was called.
FailedThroughout(c) == wpc[c] = "done" /\ wresult[c] # "result"

\* The call ended as the claim says: R + 1 invocations, one error recorded,
\* then the fallback's outcome with a fallback (its result, or what it raised)
\* and the re-raised error without one.
EndedAfterBudget(c) ==
    /\ wcalls[c] = wcfg.max_retries + 1
    /\ wrecorded[c]
    /\ wcfg.fallback => wresult[c] \in {"fallback", "raised"}
    /\ ~wcfg.fallback => wresult[c] = "raised"

\* C31 (as stated): for a function wrapped with max_retries = R that fails on
\* every call, the wrapper invokes it exactly R + 1 times, then records
\* exactly one error, and then returns the fallback's result with a fallback
\* or re-raises the last error without one.
C31_Original ==
    \A c \in Callers : FailedThroughout(c) => EndedAfterBudget(c)

\* C31 (amended): the same, for a call during which the breaker of
\* (component, operation) is never found open: the function is invoked
\* exactly R + 1 times, one error is recorded after the last invocation, and
\* the call ends with the fallback (given one) or by re-raising.
C31_ExhaustsBudget ==
    \A c \in Callers :
        (FailedThroughout(c) /\ NeverOpen(c)) =>
            /\ wattempt[c] = wcfg.max_retries
            /\ EndedAfterBudget(c)

\* With max_retries = 1 and a fallback, both invocations of a caller failed,
\* the error was recorded and the fallback's result returned.
C31_Witness ==
    \E c \in Callers :
        /\ wpc[c] = "done"
        /\ wcfg.max_retries = 1
        /\ wcfg.fallback
        /\ wcalls[c] = 2
        /\ wrecorded[c]
        /\ wresult[c] = "fallback"

\* C39: a call through with_error_handling that is rejected because the
\* breaker of (component, operation) is OPEN has no effect on the ledger: the
\* wrapped function is not invoked and no failure is recorded for the key,
\* with or without a fallback.  (A call that has ended without any invocation
\* was rejected at every breaker check it made.)
C39_RejectionNoEffect ==
    \A c \in Callers :
        (wpc[c] = "done" /\ wcalls[c] = 0) => ~wrecorded[c]

\* C38: the two complexity escalation decisions agree for every complexity
\* score: the escalation_flag of the scorer (the /query/analyze path) is true
\* exactly when should_escalate, called with that score and any sentiment
\* score, lists "complexity" as a reason (the /query path), also at 0.8.
C38_DecisionsAgree ==
    Made("get_model_recommendation") =>
        \A x \in SentimentScores :
            scall.ret.escalation_flag <=>
                Among(ShouldEscalate(scall.complexity_score, x).reasons, "complexity")

(***************************************************************************)
(* Further properties of the semantic cache                                *)
(***************************************************************************)

\* C34: after any sequence of set, get, expiry cleanup and eviction, every
\* entry that was stored with a vector still has its vector in
\* query_vectors: no call deletes the vector of an entry that remains
\* cached, an entry with the same query text under another model included.
C34_VectorsKept ==
    [][\A i \in 1..Len(cache) :
          (cache[i].query \in DOMAIN query_vectors /\ HasKey(cache', cache[i].key)) =>
              cache[i].query \in DOMAIN query_vectors']_vars

\* C36: set(q, m, r) for a (q, m) that is already cached replaces only that
\* entry: every other cached entry and its vector are unchanged by the call,
\* also when the cache is at max_cache_size.
C36_ReplaceOnly ==
    [][\A c \in SetCalls :
          (/\ Set(c[1], c[2], c[3], c[4])
           /\ ~IsBlank(c[1]) /\ c[3] # ""
           /\ HasKey(cache, GetCacheKey(c[1], c[2]))) =>
              \A i \in 1..Len(cache) :
                  cache[i].key # GetCacheKey(c[1], c[2]) =>
                      /\ HasKey(cache', cache[i].key)
                      /\ EntryOf(cache', cache[i].key) = cache[i]
                      /\ cache[i].query \in DOMAIN query_vectors =>
                             /\ cache[i].query \in DOMAIN query_vectors'
                             /\ query_vectors'[cache[i].query] = query_vectors[cache[i].query]]_vars

\* C35: in every reachable state, after any sequence of set, get and
\* automatic cache tuning (optimize_cache_settings), the number of cache
\* entries is at most the current max_cache_size.
C35_SizeBound == Len(cache) <= max_cache_size

\* The tuning has raised the limit of the full cache, and a set has then
\* stored one entry more than the cache was constructed for.
C35_Witness ==
    /\ clast.op = "set"
    /\ max_cache_size = MaxCacheSize + SizeStep
    /\ Len(cache) = MaxCacheSize + 1

(***************************************************************************)
(* Further properties of the dispatch                                      *)
(***************************************************************************)

\* The transport calls made for the links entered so far.
RECURSIVE TransportCalls(_)
TransportCalls(tr) == IF tr = <<>> THEN 0 ELSE Head(tr).calls + TransportCalls(Tail(tr))

\* C40: every dispatch terminates: under any pattern of transport responses
\* and errors, provided each transport call and each backoff sleep returns,
\* the dispatch makes at most 15 transport calls (at most 3 on the gateway
\* step and 4 on each of the three direct steps) and then returns a result.
C40_Terminates ==
    /\ [](/\ Len(tried) <= 4
          /\ \A i \in 1..Len(tried) :
                 tried[i].calls <= (IF tried[i].method = "kong" THEN 3 ELSE 4)
          /\ TransportCalls(tried) <= 15)
    /\ (qpc \in {"post", "sleep"}) ~> (qpc = "done" /\ qresult.kind = "response")

\* A dispatch has returned after 15 transport calls, 3 on the gateway and 4
\* on each direct step.
C40_Witness ==
    /\ qpc = "done"
    /\ qresult.kind = "response"
    /\ Len(tried) = 4
    /\ TransportCalls(tried) = 15

\* C37: when a dispatch ends in the static fallback (model_used "fallback"),
\* process_query leaves the semantic cache unchanged: no entry is stored for
\* the canned response and no existing entry is evicted.
C37_FallbackNotCached ==
    [][\A status \in Statuses, store \in CallOutcomes :
          (Post(status, store) /\ qpc' = "done" /\ qresult'.model_used = "fallback") =>
              (cache' = cache /\ query_vectors' = query_vectors)]_vars

\* process_query has just answered a query that is not blank on a cache miss
\* with the response of a model, and has stored it.
AnsweredByModel(q) ==
    /\ qpc = "done"
    /\ qresult.kind = "response"
    /\ request.query = q
    /\ ~IsBlank(q)
    /\ tried # <<>>
    /\ Link.out = "ok"
    /\ ~qresult.store_failed

\* C33: after process_query has answered a query on a cache miss with a
\* model response, whichever plan step produced it, processing the identical
\* query again (here: as the next request, at the same clock value) is a
\* cache hit: the response is returned with cached = true and no transport
\* call is made.
C33_RepeatIsHit ==
    [][\A q \in RequestQueries :
          (AnsweredByModel(q) /\ ProcessQuery(q, "normal")) =>
              /\ qpc' = "done"
              /\ qresult'.cached
              /\ qresult'.response = qresult.response
              /\ tried' = <<>>]_vars

(***************************************************************************)
(* The escalation of a request and the source of its response.             *)
(***************************************************************************)
Ticketed(out) == out.escalation_ticket # NoTicket

\* C32: two runs of process_query on the same complexity and sentiment
\* scores report the same escalation_required, the same reasons and the same
\* ticket priority, and create a ticket exactly when should_escalate is true,
\* whichever source (cache, a link of the chain, canned text) each response has.
C32_ScoresOnly ==
    Made("process_query") =>
        LET a == scall.ret[1]
            b == scall.ret[2]
            decision == ShouldEscalate(scall.complexity_score, scall.sentiment_score)
        IN /\ a.escalation_required = b.escalation_required
           /\ a.escalation_required = decision.escalate
           /\ a.escalation_reasons = b.escalation_reasons
           /\ a.escalation_ticket.priority = b.escalation_ticket.priority
           /\ Ticketed(a) <=> decision.escalate
           /\ Ticketed(b) <=> decision.escalate
           /\ Len(crm_store) = IF decision.escalate THEN 2 ELSE 0

\* An escalated request answered from the cache and the same scores answered
\* by the canned text, both with a ticket of priority high.
C32_Witness ==
    /\ Made("process_query")
    /\ scall.ret[1].cached
    /\ scall.ret[2].model_used = "fallback"
    /\ Ticketed(scall.ret[1])
    /\ scall.ret[2].escalation_ticket.priority = "high"

====
